---------------------------- MODULE Spec2Model ----------------------------
(***************************************************************************)
(* WebInsights Assistant: the analytics pipeline (processing, insight,     *)
(* recommendation, visualization stages) and its coordinators.             *)
(*                                                                         *)
(* Conventions of the model                                                *)
(*  - a Python dict whose iteration order matters (traffic_sources,        *)
(*    devices, metrics.visitors.daily, fonti_traffico, dispositivi) is a   *)
(*    sequence of <<key, value>> pairs with pairwise distinct keys;        *)
(*  - a Python dict with a fixed, optional set of keys is a record, a key  *)
(*    is present iff it is in the DOMAIN of the record;                    *)
(*  - a value rounded to 2 decimals (round(x, 2)) is the integer number of *)
(*    hundredths; pages_per_session is kept in hundredths as well;         *)
(*  - a string that the code takes apart (a page path) is a sequence of    *)
(*    one-character strings, other strings are atoms;                      *)
(*  - a date is the day number of the YYYY-MM-DD string.                   *)
(***************************************************************************)
EXTENDS Integers, Sequences, FiniteSets, TLC

(***************************************************************************)
(* Bounds of the input space                                               *)
(***************************************************************************)
MaxDays == 6
MaxSources == 3
MaxCount == 2
MaxPages == 2

(***************************************************************************)
(* Generic helpers: Python built-ins used by the stages                    *)
(***************************************************************************)
Abs(x) == IF x < 0 THEN -x ELSE x

RECURSIVE Sum(_)
Sum(s) == IF s = <<>> THEN 0 ELSE Head(s) + Sum(Tail(s))

RECURSIVE SumSq(_)
SumSq(s) == IF s = <<>> THEN 0 ELSE Head(s) * Head(s) + SumSq(Tail(s))

\* round(a / b, 0) for b > 0: Python rounds an exactly representable tie
\* to the even neighbour.
RoundHalfEven(a, b) ==
    LET q == a \div b
        r == a % b
    IN  IF 2 * r < b THEN q
        ELSE IF 2 * r > b THEN q + 1
        ELSE IF q % 2 = 0 THEN q ELSE q + 1

\* round((num / den) * 100, 2), in hundredths, den > 0
Round2Pct(num, den) == RoundHalfEven(10000 * num, den)

\* dict.keys(), dict.values() and `k in d` of an ordered mapping
Keys(m) == [i \in 1..Len(m) |-> m[i][1]]
Values(m) == [i \in 1..Len(m) |-> m[i][2]]
HasKey(m, k) == \E i \in 1..Len(m) : m[i][1] = k
Get(m, k) == m[CHOOSE i \in 1..Len(m) : m[i][1] = k][2]

\* d[k] = v on an ordered mapping: an existing key keeps its position
DictSet(m, k, v) ==
    IF HasKey(m, k)
    THEN [i \in 1..Len(m) |-> IF m[i][1] = k THEN <<k, v>> ELSE m[i]]
    ELSE Append(m, <<k, v>>)

\* a scan that lets a later item of equal value replace the best one
RECURSIVE MaxFromLast(_, _, _)
MaxFromLast(m, best, i) ==
    IF i > Len(m) THEN best
    ELSE MaxFromLast(m, IF m[i][2] >= best[2] THEN m[i] ELSE best, i + 1)

\* max(items, key=value): the scan keeps the current best item and replaces
\* it only by an item of strictly greater value
RECURSIVE MaxFrom(_, _, _)
MaxFrom(m, best, i) ==
    IF i > Len(m) THEN best
    ELSE MaxFrom(m, IF m[i][2] > best[2] THEN m[i] ELSE best, i + 1)

MaxItem(m) == MaxFrom(m, m[1], 2)

(***************************************************************************)
(* DataProcessingAgent._simplify_page_path                                 *)
(***************************************************************************)
\* the letters of the model's alphabet; every other character has no case
LowerChars == <<"a", "b", "c", "d", "e", "g", "h", "l", "m", "n", "o", "p",
                "r", "s", "t", "u">>
UpperChars == <<"A", "B", "C", "D", "E", "G", "H", "L", "M", "N", "O", "P",
                "R", "S", "T", "U">>
Upper(c) ==
    IF \E i \in 1..Len(LowerChars) : LowerChars[i] = c
    THEN UpperChars[CHOOSE i \in 1..Len(LowerChars) : LowerChars[i] = c]
    ELSE c
Lower(c) ==
    IF \E i \in 1..Len(UpperChars) : UpperChars[i] = c
    THEN LowerChars[CHOOSE i \in 1..Len(UpperChars) : UpperChars[i] = c]
    ELSE c

\* str.strip("/")
RECURSIVE LStrip(_)
LStrip(s) == IF s # <<>> /\ Head(s) = "/" THEN LStrip(Tail(s)) ELSE s

RECURSIVE RStrip(_)
RStrip(s) ==
    IF s # <<>> /\ s[Len(s)] = "/" THEN RStrip(SubSeq(s, 1, Len(s) - 1)) ELSE s

Strip(s) == RStrip(LStrip(s))

\* .replace("-", " ").replace("_", " ")
ReplaceSeparators(s) ==
    [i \in 1..Len(s) |-> IF s[i] \in {"-", "_"} THEN " " ELSE s[i]]

\* str.split(): the maximal runs of non-blank characters, in order
RECURSIVE SplitWords(_, _)
SplitWords(s, word) ==
    IF s = <<>> THEN (IF word = <<>> THEN <<>> ELSE <<word>>)
    ELSE IF Head(s) = " "
         THEN (IF word = <<>> THEN <<>> ELSE <<word>>) \o SplitWords(Tail(s), <<>>)
         ELSE SplitWords(Tail(s), Append(word, Head(s)))

\* str.capitalize(): first character upper case, the others lower case
Capitalize(w) ==
    [i \in 1..Len(w) |-> IF i = 1 THEN Upper(w[i]) ELSE Lower(w[i])]

\* " ".join(words)
RECURSIVE JoinWords(_)
JoinWords(ws) ==
    IF ws = <<>> THEN <<>>
    ELSE IF Len(ws) = 1 THEN Head(ws)
    ELSE Head(ws) \o <<" ">> \o JoinWords(Tail(ws))

HomePage == <<"H", "o", "m", "e", " ", "P", "a", "g", "e">>

_simplify_page_path(path) ==
    IF path = <<"/">> THEN HomePage
    ELSE LET words == SplitWords(ReplaceSeparators(Strip(path)), <<>>)
         IN  JoinWords([i \in 1..Len(words) |-> Capitalize(words[i])])

(***************************************************************************)
(* Outcome of a call: a returned value or a raised exception               *)
(***************************************************************************)
Returned(d) == [raised |-> "none", data |-> d]
Raised(e) == [raised |-> e]

EmptyDict == <<>>

\* d.get(k, default) on a record
RecGet(d, k, default) == IF k \in DOMAIN d THEN d[k] ELSE default

(***************************************************************************)
(* DataProcessingAgent._process_data, section by section                   *)
(***************************************************************************)
DefaultTitle == "Analisi del sito web"

ReportInfo(raw_data) ==
    [title |-> RecGet(raw_data, "report_name", DefaultTitle),
     periodo |-> [dal |-> RecGet(raw_data, "start_date", "None"),
                  al |-> RecGet(raw_data, "end_date", "None")]]

MetrichePrincipali(raw_data) ==
    IF "metrics" \in DOMAIN raw_data
    THEN LET metrics == raw_data.metrics
         IN  [visitatori_totali |->
                  RecGet(RecGet(metrics, "visitors", EmptyDict), "total", 0),
              visualizzazioni_pagina_totali |->
                  RecGet(RecGet(metrics, "pageviews", EmptyDict), "total", 0),
              pagine_per_sessione |-> RecGet(metrics, "pages_per_session", 0)]
    ELSE EmptyDict

HasDaily(raw_data) ==
    /\ "metrics" \in DOMAIN raw_data
    /\ "visitors" \in DOMAIN raw_data.metrics
    /\ "daily" \in DOMAIN raw_data.metrics.visitors

\* a split that gives the extra element of an odd length to the first half
MidpointCeil(n) == (n + 1) \div 2

\* len(daily_visitors) // 2
Midpoint(n) == n \div 2

\* a trend entry whose rate is taken from the second half to the first
TrendEntryReversed(daily_visitors) ==
    LET n == Len(daily_visitors)
        first_half == SubSeq(daily_visitors, 1, n \div 2)
        second_half == SubSeq(daily_visitors, n \div 2 + 1, n)
        num == Sum(first_half) * Len(second_half)
                   - Sum(second_half) * Len(first_half)
        den == Sum(first_half) * Len(second_half)
    IN  [direzione |-> IF num > 0 THEN "crescita" ELSE "decrescita",
         percentuale |-> Round2Pct(Abs(num), den)]

\* the trend entry of a list of daily values with at least 2 values and a
\* positive first-half mean
TrendEntry(daily_visitors) ==
    LET n == Len(daily_visitors)
        first_half == SubSeq(daily_visitors, 1, Midpoint(n))
        second_half == SubSeq(daily_visitors, Midpoint(n) + 1, n)
        n1 == Len(first_half)
        n2 == Len(second_half)
        \* growth_rate = num / den * 100, den > 0
        num == Sum(second_half) * n1 - Sum(first_half) * n2
        den == Sum(first_half) * n2
    IN  [direzione |-> IF num > 0 THEN "crescita" ELSE "decrescita",
         percentuale |-> Round2Pct(Abs(num), den)]

Tendenze(raw_data) ==
    IF HasDaily(raw_data)
    THEN LET daily_visitors == Values(raw_data.metrics.visitors.daily)
             n == Len(daily_visitors)
         IN  IF n >= 2 /\ Sum(SubSeq(daily_visitors, 1, Midpoint(n))) > 0
             THEN [visitatori |-> TrendEntry(daily_visitors)]
             ELSE EmptyDict
    ELSE EmptyDict

\* the share rounded to one decimal instead of two
PercentualeOneDecimal(value, total) ==
    IF total > 0 THEN 10 * RoundHalfEven(1000 * value, total) ELSE 0

\* round((value / total) * 100, 2) if total > 0 else 0
Percentuale(value, total) == IF total > 0 THEN Round2Pct(value, total) ELSE 0

\* the dict comprehension over sources.items() / devices.items()
Shares(counts) ==
    LET total == Sum(Values(counts))
    IN  [i \in 1..Len(counts) |->
            <<counts[i][1],
              [valore |-> counts[i][2],
               percentuale |-> Percentuale(counts[i][2], total)]>>]

MainSource(sources) == MaxItem(sources)

FontiTraffico(sources) ==
    LET total_traffic == Sum(Values(sources))
    IN  IF sources # <<>>
        THEN DictSet(Shares(sources), "principale",
                     [nome |-> MainSource(sources)[1],
                      percentuale |->
                          Percentuale(MainSource(sources)[2], total_traffic)])
        ELSE Shares(sources)

Dispositivi(devices) == Shares(devices)

PageFields == {"path", "pageviews", "avg_time"}
PagesComplete(top_pages) ==
    \A i \in 1..Len(top_pages) : PageFields \subseteq DOMAIN top_pages[i]

PaginePrincipali(top_pages) ==
    [i \in 1..Len(top_pages) |->
        [nome |-> _simplify_page_path(top_pages[i].path),
         percorso |-> top_pages[i].path,
         visualizzazioni |-> top_pages[i].pageviews,
         tempo_medio |-> top_pages[i].avg_time]]

\* a test that also flags a point at exactly two standard deviations
IsAnomalyInclusive(values, i) ==
    LET n == Len(values)
        d == n * values[i] - Sum(values)
    IN  d * d >= 4 * (n * SumSq(values) - Sum(values) * Sum(values))

\* abs(value - avg) > 2 * std_dev, with avg = S / n and
\* std_dev = sqrt((n * Q - S * S) / (n * n)), compared after squaring
IsAnomaly(values, i) ==
    LET n == Len(values)
        S == Sum(values)
        Q == SumSq(values)
        d == n * values[i] - S
    IN  d * d > 4 * (n * Q - S * S)

AnomalyIndexes(values) ==
    IF Len(values) >= 3 THEN {i \in 1..Len(values) : IsAnomaly(values, i)}
    ELSE {}

\* the i-th smallest element of a finite set of integers
RECURSIVE SortedSeq(_)
SortedSeq(S) ==
    IF S = {} THEN <<>>
    ELSE LET m == CHOOSE x \in S : \A y \in S : x <= y
         IN  <<m>> \o SortedSeq(S \ {m})

AnomalyEntry(daily_data, i) ==
    LET values == Values(daily_data)
        n == Len(values)
        S == Sum(values)
    IN  [tipo |-> IF n * values[i] > S THEN "picco" ELSE "calo",
         data |-> daily_data[i][1],
         valore |-> values[i],
         differenza_percentuale |->
             RoundHalfEven(10000 * Abs(n * values[i] - S), Abs(S))]

Anomalie(daily_data) ==
    LET idx == SortedSeq(AnomalyIndexes(Values(daily_data)))
    IN  [k \in 1..Len(idx) |-> AnomalyEntry(daily_data, idx[k])]

\* (value - avg) / avg divides by zero when a point is flagged and avg = 0
AnomaliesDivideByZero(raw_data) ==
    /\ HasDaily(raw_data)
    /\ AnomalyIndexes(Values(raw_data.metrics.visitors.daily)) # {}
    /\ Sum(Values(raw_data.metrics.visitors.daily)) = 0

_process_data(raw_data) ==
    IF "top_pages" \in DOMAIN raw_data /\ ~PagesComplete(raw_data.top_pages)
    THEN Raised("KeyError")
    ELSE IF AnomaliesDivideByZero(raw_data)
    THEN Raised("ZeroDivisionError")
    ELSE Returned(
        [report_info |-> ReportInfo(raw_data),
         metriche_principali |-> MetrichePrincipali(raw_data),
         tendenze |-> Tendenze(raw_data),
         confronti |-> EmptyDict,
         anomalie |-> IF HasDaily(raw_data)
                      THEN Anomalie(raw_data.metrics.visitors.daily)
                      ELSE <<>>]
        @@ (IF "traffic_sources" \in DOMAIN raw_data
            THEN [fonti_traffico |-> FontiTraffico(raw_data.traffic_sources)]
            ELSE EmptyDict)
        @@ (IF "devices" \in DOMAIN raw_data
            THEN [dispositivi |-> Dispositivi(raw_data.devices)]
            ELSE EmptyDict)
        @@ (IF "top_pages" \in DOMAIN raw_data
            THEN [pagine_principali |-> PaginePrincipali(raw_data.top_pages)]
            ELSE EmptyDict))

(***************************************************************************)
(* DataProcessingAgent.process: a request is a tagged value,               *)
(* [type |-> "dict", d |-> the dict] or [type |-> another Python type]     *)
(***************************************************************************)
IsDict(request) == request.type = "dict"

InvalidFormat == [error |-> "Invalid data format"]
ResponseInvalid == "Errore: i dati forniti non sono nel formato atteso"

DataProcessingAgent_process(request) ==
    IF ~IsDict(request)
    THEN Returned([response |-> ResponseInvalid, data |-> InvalidFormat])
    ELSE LET r == _process_data(request.d)
         IN  IF r.raised # "none" THEN r
             ELSE Returned([response |-> "Dati elaborati con successo",
                            data |-> r.data])

(***************************************************************************)
(* InsightGenerationAgent._time_to_seconds.  A time string is the sequence *)
(* of its ":"-separated parts; a part is [ok |-> TRUE, n |-> its integer]  *)
(* or [ok |-> FALSE] when int() raises ValueError on it.                   *)
(***************************************************************************)
_time_to_seconds(time_str) ==
    LET parts == time_str
        AllInts(k) == \A i \in 1..k : parts[i].ok
    IN  IF Len(parts) = 3
        THEN (IF AllInts(3)
              THEN parts[1].n * 3600 + parts[2].n * 60 + parts[3].n ELSE 0)
        ELSE IF Len(parts) = 2
        THEN (IF AllInts(2) THEN parts[1].n * 60 + parts[2].n ELSE 0)
        ELSE (IF AllInts(1) THEN parts[1].n ELSE 0)

(***************************************************************************)
(* InsightGenerationAgent._generate_insights.  A sentence or bullet built  *)
(* by an f-string is the record of its template and of the values it       *)
(* interpolates; the summary is the sequence of its clauses.               *)
(***************************************************************************)
\* name.replace('_', ' ').capitalize() of a source or device name
DisplayName(name) == [capitalized |-> name]

\* a ranking that keeps the order of the mapping
SortKeepingOrder(pairs) == pairs

\* sorted(pairs, key=percentage, reverse=True): stable, descending
RECURSIVE SortDescending(_)
SortDescending(pairs) ==
    IF pairs = <<>> THEN <<>>
    ELSE LET i == CHOOSE k \in 1..Len(pairs) :
                      /\ \A j \in 1..Len(pairs) : pairs[j][2] <= pairs[k][2]
                      /\ \A j \in 1..(k - 1) : pairs[j][2] < pairs[k][2]
         IN  <<pairs[i]>> \o
             SortDescending([j \in 1..(Len(pairs) - 1) |->
                                IF j < i THEN pairs[j] ELSE pairs[j + 1]])

\* [x for x in seq if Keep(x)] as a selection of indexes
RECURSIVE FilterIndexes(_, _, _)
FilterIndexes(seq, keep, i) ==
    IF i > Len(seq) THEN <<>>
    ELSE (IF i \in keep THEN <<seq[i]>> ELSE <<>>)
         \o FilterIndexes(seq, keep, i + 1)

WithoutPrincipale(fonti) ==
    FilterIndexes(fonti, {i \in 1..Len(fonti) : fonti[i][1] # "principale"}, 1)

PercentPairs(entries) ==
    [i \in 1..Len(entries) |->
        <<entries[i][1], RecGet(entries[i][2], "percentuale", 0)>>]

Sommario(metriche, tendenze, fonti_traffico) ==
    <<[clause |-> "totali",
       visitatori |-> RecGet(metriche, "visitatori_totali", 0),
       pageviews |-> RecGet(metriche, "visualizzazioni_pagina_totali", 0),
       pages_per_session |-> RecGet(metriche, "pagine_per_sessione", 0)]>>
    \o (IF "visitatori" \in DOMAIN tendenze
        THEN <<[clause |-> "tendenza",
                direzione |-> RecGet(tendenze.visitatori, "direzione", ""),
                percentuale |-> RecGet(tendenze.visitatori, "percentuale", 0)]>>
        ELSE <<>>)
    \o (IF HasKey(fonti_traffico, "principale")
        THEN <<[clause |-> "fonte_principale",
                nome |-> DisplayName(
                    RecGet(Get(fonti_traffico, "principale"), "nome", "")),
                percentuale |->
                    RecGet(Get(fonti_traffico, "principale"), "percentuale", 0)]>>
        ELSE <<>>)

PuntiChiave(fonti_traffico, dispositivi, pagine, anomalie) ==
    (IF fonti_traffico # <<>> /\ WithoutPrincipale(fonti_traffico) # <<>>
     THEN <<[rule |-> "fonti",
             items |-> LET sorted_sources ==
                               SortDescending(PercentPairs(
                                   WithoutPrincipale(fonti_traffico)))
                       IN  [i \in 1..Len(sorted_sources) |->
                               <<DisplayName(sorted_sources[i][1]),
                                 sorted_sources[i][2]>>]]>>
     ELSE <<>>)
    \o (IF dispositivi # <<>>
        THEN <<[rule |-> "dispositivi",
                items |-> LET sorted_devices ==
                                  SortDescending(PercentPairs(dispositivi))
                          IN  [i \in 1..Len(sorted_devices) |->
                                  <<DisplayName(sorted_devices[i][1]),
                                    sorted_devices[i][2]>>]]>>
        ELSE <<>>)
    \o (IF pagine # <<>>
        THEN <<[rule |-> "pagine",
                items |-> LET top_pages ==
                                  SubSeq(pagine, 1,
                                         IF Len(pagine) < 3 THEN Len(pagine) ELSE 3)
                          IN  [i \in 1..Len(top_pages) |->
                                  <<RecGet(top_pages[i], "nome", ""),
                                    RecGet(top_pages[i], "visualizzazioni", 0)>>]]>>
        ELSE <<>>)
    \o (IF anomalie # <<>>
        THEN <<[rule |-> "anomalie",
                items |-> [i \in 1..Len(anomalie) |->
                              <<RecGet(anomalie[i], "tipo", ""),
                                RecGet(anomalie[i], "differenza_percentuale", 0),
                                RecGet(anomalie[i], "data", "")>>]]>>
        ELSE <<>>)

LowSourceThreshold == 1500
\* a growth test that also takes a share of exactly 30 percent
MobileLowThresholdInclusive == 3000 + 1
MobileLowThreshold == 3000
MobileHighThreshold == 5000

\* a selection that leaves out the source the summary names as the main one
LowSourcesWithoutMain(fonti_traffico) ==
    FilterIndexes(fonti_traffico,
        {i \in 1..Len(fonti_traffico) :
            /\ fonti_traffico[i][1] # "principale"
            /\ fonti_traffico[i][1] #
                   RecGet(Get(fonti_traffico, "principale"), "nome", "")
            /\ RecGet(fonti_traffico[i][2], "percentuale", 0)
                   < LowSourceThreshold}, 1)

\* low_sources: the items whose key is not "principale" and whose
\* percentage is below 15
LowSources(fonti_traffico) ==
    FilterIndexes(fonti_traffico,
        {i \in 1..Len(fonti_traffico) :
            /\ fonti_traffico[i][1] # "principale"
            /\ RecGet(fonti_traffico[i][2], "percentuale", 0)
                   < LowSourceThreshold}, 1)

Opportunita(fonti_traffico, dispositivi) ==
    LET low == LowSources(fonti_traffico)
    IN  [i \in 1..Len(low) |->
            [rule |-> "crescita_canale",
             source |-> DisplayName(low[i][1]),
             percentuale |-> RecGet(low[i][2], "percentuale", 0)]]
        \o (IF dispositivi # <<>> /\ HasKey(dispositivi, "mobile")
            THEN LET mobile_percentage ==
                         RecGet(Get(dispositivi, "mobile"), "percentuale", 0)
                 IN  IF mobile_percentage < MobileLowThreshold
                     THEN <<[rule |-> "mobile_crescita",
                             percentuale |-> mobile_percentage]>>
                     ELSE IF mobile_percentage > MobileHighThreshold
                     THEN <<[rule |-> "mobile_ottimizzazione",
                             percentuale |-> mobile_percentage]>>
                     ELSE <<>>
            ELSE <<>>)

PagesPerSessionThreshold == 200
\* an SEO test that also takes a share of exactly 20 percent
OrganicThresholdInclusive == 2000 + 1
OrganicThreshold == 2000
SocialThreshold == 1000

DefaultTime == <<[ok |-> TRUE, n |-> 0], [ok |-> TRUE, n |-> 0], [ok |-> TRUE, n |-> 0]>>

\* the key of min(): _time_to_seconds(x.get("tempo_medio", "00:00:00"))
PageSeconds(page) == _time_to_seconds(RecGet(page, "tempo_medio", DefaultTime))

\* a scan that lets a later page of equal key replace the best one
RECURSIVE MinPageFromLast(_, _, _)
MinPageFromLast(pagine, best, i) ==
    IF i > Len(pagine) THEN best
    ELSE MinPageFromLast(pagine,
             IF PageSeconds(pagine[i]) <= PageSeconds(best) THEN pagine[i]
             ELSE best, i + 1)

\* min(pagine, key=seconds): the scan keeps the current best page and
\* replaces it only by a page of strictly smaller key
RECURSIVE MinPageFrom(_, _, _)
MinPageFrom(pagine, best, i) ==
    IF i > Len(pagine) THEN best
    ELSE MinPageFrom(pagine,
             IF PageSeconds(pagine[i]) < PageSeconds(best) THEN pagine[i]
             ELSE best, i + 1)

LowestTimePage(pagine) == MinPageFrom(pagine, pagine[1], 2)

ConsigliPratici(pages_per_session, fonti_traffico, pagine) ==
    (IF pages_per_session < PagesPerSessionThreshold
     THEN <<[rule |-> "collegamenti_interni"]>> ELSE <<>>)
    \o (IF fonti_traffico # <<>> /\ HasKey(fonti_traffico, "organic")
           /\ RecGet(Get(fonti_traffico, "organic"), "percentuale", 0)
                  < OrganicThreshold
        THEN <<[rule |-> "seo"]>> ELSE <<>>)
    \o (IF fonti_traffico # <<>> /\ HasKey(fonti_traffico, "social")
           /\ RecGet(Get(fonti_traffico, "social"), "percentuale", 0)
                  < SocialThreshold
        THEN <<[rule |-> "social"]>> ELSE <<>>)
    \o (IF pagine # <<>>
        THEN <<[rule |-> "contenuto_pagina",
                nome |-> RecGet(LowestTimePage(pagine), "nome", "")]>>
        ELSE <<>>)

_generate_insights(processed_data) ==
    LET metriche == RecGet(processed_data, "metriche_principali", EmptyDict)
        tendenze == RecGet(processed_data, "tendenze", EmptyDict)
        fonti_traffico == RecGet(processed_data, "fonti_traffico", <<>>)
        dispositivi == RecGet(processed_data, "dispositivi", <<>>)
        pagine == RecGet(processed_data, "pagine_principali", <<>>)
        anomalie == RecGet(processed_data, "anomalie", <<>>)
        pages_per_session == RecGet(metriche, "pagine_per_sessione", 0)
    IN  [sommario |-> Sommario(metriche, tendenze, fonti_traffico),
         punti_chiave |-> PuntiChiave(fonti_traffico, dispositivi, pagine, anomalie),
         opportunita |-> Opportunita(fonti_traffico, dispositivi),
         consigli_pratici |->
             ConsigliPratici(pages_per_session, fonti_traffico, pagine)]

InsightGenerationAgent_process(request) ==
    IF ~IsDict(request)
    THEN Returned([response |-> ResponseInvalid, data |-> InvalidFormat])
    ELSE Returned([response |-> "Insight generati con successo",
                   data |-> _generate_insights(request.d)])

(***************************************************************************)
(* VisualizationAgent._create_visualizations.  A chart keeps its type, id  *)
(* and data (labels, values); a report section keeps its type and what it  *)
(* refers to.  processed_data.raw_data is the tagged raw request.          *)
(***************************************************************************)
\* `"metrics" in x` raises TypeError when x is not a container
ContainerTypes == {"dict", "list", "str"}

\* insertion sort of (date, value) items by date: sorted(daily.items())
RECURSIVE SortByDate(_)
SortByDate(items) ==
    IF items = <<>> THEN <<>>
    ELSE LET i == CHOOSE k \in 1..Len(items) :
                      \A j \in 1..Len(items) : items[k][1] <= items[j][1]
         IN  <<items[i]>> \o
             SortByDate([j \in 1..(Len(items) - 1) |->
                            IF j < i THEN items[j] ELSE items[j + 1]])

RawDataOf(processed_data) ==
    RecGet(processed_data, "raw_data", [type |-> "dict", d |-> EmptyDict])

VisualizationRaises(processed_data) ==
    /\ processed_data # EmptyDict
    /\ RawDataOf(processed_data).type \notin ContainerTypes

\* a stage that finds no raw metrics, whatever it is handed
NoRawMetrics(processed_data) == <<>>

RawMetricsOf(processed_data) ==
    IF /\ processed_data # EmptyDict
       /\ IsDict(RawDataOf(processed_data))
       /\ "metrics" \in DOMAIN RawDataOf(processed_data).d
    THEN <<RawDataOf(processed_data).d.metrics>>
    ELSE <<>>

\* a device chart under an id of its own
DevicesChartIdRenamed == "device_shares"
\* "id": "devices"
DevicesChartId == "devices"

Charts(processed_data) ==
    (IF processed_data # EmptyDict /\ "metriche_principali" \in DOMAIN processed_data
     THEN <<[type |-> "bar", id |-> "main_metrics",
             labels |-> <<"Visitatori", "Visualizzazioni Pagina">>,
             values |-> <<RecGet(processed_data.metriche_principali,
                                 "visitatori_totali", 0),
                          RecGet(processed_data.metriche_principali,
                                 "visualizzazioni_pagina_totali", 0)>>]>>
     ELSE <<>>)
    \o (IF /\ RawMetricsOf(processed_data) # <<>>
           /\ "visitors" \in DOMAIN RawMetricsOf(processed_data)[1]
           /\ "daily" \in DOMAIN RawMetricsOf(processed_data)[1].visitors
        THEN LET sorted_data ==
                     SortByDate(RawMetricsOf(processed_data)[1].visitors.daily)
             IN  <<[type |-> "line", id |-> "visitors_trend",
                    labels |-> Keys(sorted_data),
                    values |-> Values(sorted_data)]>>
        ELSE <<>>)
    \o (IF /\ processed_data # EmptyDict
           /\ "fonti_traffico" \in DOMAIN processed_data
           /\ WithoutPrincipale(processed_data.fonti_traffico) # <<>>
        THEN LET fonti_copy == WithoutPrincipale(processed_data.fonti_traffico)
             IN  <<[type |-> "pie", id |-> "traffic_sources",
                    labels |-> [i \in 1..Len(fonti_copy) |->
                                   DisplayName(fonti_copy[i][1])],
                    values |-> Values(PercentPairs(fonti_copy))]>>
        ELSE <<>>)
    \o (IF /\ processed_data # EmptyDict
           /\ "dispositivi" \in DOMAIN processed_data
           /\ processed_data.dispositivi # <<>>
        THEN <<[type |-> "doughnut", id |-> DevicesChartId,
                labels |-> [i \in 1..Len(processed_data.dispositivi) |->
                               DisplayName(processed_data.dispositivi[i][1])],
                values |-> Values(PercentPairs(processed_data.dispositivi))]>>
        ELSE <<>>)
    \o (IF /\ processed_data # EmptyDict
           /\ "pagine_principali" \in DOMAIN processed_data
           /\ processed_data.pagine_principali # <<>>
        THEN LET pagine == processed_data.pagine_principali
             IN  <<[type |-> "horizontalBar", id |-> "top_pages",
                    labels |-> [i \in 1..Len(pagine) |->
                                   RecGet(pagine[i], "nome", "")],
                    values |-> [i \in 1..Len(pagine) |->
                                   RecGet(pagine[i], "visualizzazioni", 0)]]>>
        ELSE <<>>)

Sections(processed_data, insights) ==
    (IF insights # EmptyDict /\ "sommario" \in DOMAIN insights
     THEN <<[type |-> "summary"]>> ELSE <<>>)
    \o (IF processed_data # EmptyDict
           /\ "metriche_principali" \in DOMAIN processed_data
        THEN <<[type |-> "metrics"]>> ELSE <<>>)
    \o (IF /\ processed_data # EmptyDict
           /\ "fonti_traffico" \in DOMAIN processed_data
           /\ WithoutPrincipale(processed_data.fonti_traffico) # <<>>
        THEN <<[type |-> "chart", chartId |-> "traffic_sources"]>> ELSE <<>>)
    \o (IF /\ processed_data # EmptyDict
           /\ "dispositivi" \in DOMAIN processed_data
           /\ processed_data.dispositivi # <<>>
        THEN <<[type |-> "chart", chartId |-> "devices"]>> ELSE <<>>)
    \o (IF /\ processed_data # EmptyDict
           /\ "pagine_principali" \in DOMAIN processed_data
           /\ processed_data.pagine_principali # <<>>
        THEN <<[type |-> "table"]>> ELSE <<>>)
    \o (IF /\ insights # EmptyDict /\ "punti_chiave" \in DOMAIN insights
           /\ insights.punti_chiave # <<>>
        THEN <<[type |-> "insights"]>> ELSE <<>>)
    \o (IF /\ insights # EmptyDict /\ "opportunita" \in DOMAIN insights
           /\ insights.opportunita # <<>>
        THEN <<[type |-> "opportunities"]>> ELSE <<>>)
    \o (IF /\ insights # EmptyDict /\ "consigli_pratici" \in DOMAIN insights
           /\ insights.consigli_pratici # <<>>
        THEN <<[type |-> "recommendations"]>> ELSE <<>>)

_create_visualizations(input_data) ==
    LET processed_data == RecGet(input_data, "processed_data", EmptyDict)
        insights == RecGet(input_data, "insights", EmptyDict)
    IN  IF VisualizationRaises(processed_data)
        THEN Raised("TypeError")
        ELSE Returned([dashboard |-> [charts |-> Charts(processed_data)],
                       report |-> [sections |-> Sections(processed_data, insights)]])

VisualizationAgent_process(request) ==
    IF ~IsDict(request)
    THEN Returned([response |-> ResponseInvalid, data |-> InvalidFormat])
    ELSE LET r == _create_visualizations(request.d)
         IN  IF r.raised # "none" THEN r
             ELSE Returned([response |-> "Visualizzazioni create con successo",
                            data |-> r.data])

(***************************************************************************)
(* The raw requests the workflow is run on                                 *)
(***************************************************************************)
MaxDevices == 2

SourceNames == {"direct", "organic", "social", "principale"}
DeviceNames == {"mobile", "desktop", "tablet"}
DailyValues == {-5, 0, 1}

\* the ordered mappings of at most n distinct names to counts
KeySet(m) == {m[i][1] : i \in 1..Len(m)}

RECURSIVE Mappings(_, _, _)
Mappings(names, counts, n) ==
    IF n = 0 THEN {<<>>}
    ELSE LET shorter == Mappings(names, counts, n - 1)
         IN  shorter \cup
             UNION {{Append(m, <<k, c>>) : k \in names \ KeySet(m), c \in counts} :
                    m \in {x \in shorter : Len(x) = n - 1}}

\* the counts of a source may be negative: nothing in the stage rejects them
SourceCounts == {-1} \cup 0..MaxCount
SourceMappings == Mappings(SourceNames, SourceCounts, MaxSources)
DeviceMappings == Mappings(DeviceNames, 0..MaxCount, MaxDevices)

\* a mapping of 23 sources, 18 of count 3 and 5 of count 1
ManyNames ==
    <<"s01", "s02", "s03", "s04", "s05", "s06", "s07", "s08", "s09", "s10",
      "s11", "s12", "s13", "s14", "s15", "s16", "s17", "s18", "s19", "s20",
      "s21", "s22", "s23">>
ManySources ==
    [i \in 1..Len(ManyNames) |-> <<ManyNames[i], IF i <= 18 THEN 3 ELSE 1>>]

TieExample == <<<<"direct", 50>>, <<"organic", 50>>>>

\* the sources and devices of the sample data, and mappings whose shares lie
\* on and just below the thresholds of the insight stage
SampleSources == <<<<"direct", 350>>, <<"organic", 250>>, <<"referral", 200>>,
                   <<"social", 150>>, <<"email", 50>>>>
ThresholdSources == <<<<"direct", 55>>, <<"organic", 20>>, <<"social", 10>>,
                      <<"referral", 15>>>>
BelowThresholdSources == <<<<"direct", 58>>, <<"organic", 19>>, <<"social", 9>>,
                           <<"referral", 14>>>>
SourceExamples ==
    {ManySources, TieExample, SampleSources, ThresholdSources,
     BelowThresholdSources}
SampleDevices == <<<<"desktop", 550>>, <<"mobile", 350>>, <<"tablet", 100>>>>
DeviceExamples ==
    {SampleDevices,
     <<<<"mobile", 3>>, <<"desktop", 7>>>>,
     <<<<"mobile", 29>>, <<"desktop", 71>>>>,
     <<<<"desktop", 49>>, <<"mobile", 51>>>>}

\* daily visitors of days 1..n
DailySeries ==
    UNION {{[i \in 1..n |-> <<i, v[i]>>] : v \in [1..n -> DailyValues]} :
           n \in 0..MaxDays}

\* the strictly increasing and the strictly decreasing series of levels
MaxLevel == 5
Dated(v) == [i \in 1..Len(v) |-> <<i, v[i]>>]
Reversed(v) == [i \in 1..Len(v) |-> v[Len(v) + 1 - i]]
IncreasingSeries ==
    {Dated(SortedSeq(S)) :
        S \in {T \in SUBSET (0..MaxLevel) : Cardinality(T) <= MaxDays}}
DecreasingSeries ==
    {Dated(Reversed(SortedSeq(S))) :
        S \in {T \in SUBSET (0..MaxLevel) : Cardinality(T) <= MaxDays}}

\* four equal days and one day five times as high
SpikeExample == Dated(<<100, 100, 100, 100, 500>>)

P(n) == [ok |-> TRUE, n |-> n]
\* "00:01:30", a text without a number, "01:30", "00:00:00", "45" and
\* "01:x:00:02"
TimeStrings ==
    {<<P(0), P(1), P(30)>>, <<[ok |-> FALSE]>>, <<P(1), P(30)>>,
     <<P(0), P(0), P(0)>>, <<P(45)>>, <<P(1), [ok |-> FALSE], P(0), P(2)>>}
PagePaths == {<<"/">>, <<"/", "a", "-", "b">>, <<"a", "_", "B", "/">>}

SamplePage == [path |-> <<"/">>, pageviews |-> 10, avg_time |-> <<P(0), P(2), P(15)>>]
PageRecords ==
    {[path |-> p, pageviews |-> 10, avg_time |-> t] :
        p \in PagePaths, t \in TimeStrings}
    \cup {[k \in F |-> SamplePage[k]] : F \in (SUBSET PageFields) \ {PageFields}}
PageLists == UNION {[1..n -> PageRecords] : n \in 0..MaxPages}

\* the five pages of the sample data
SamplePages ==
    <<[path |-> <<"/">>, pageviews |-> 400, avg_time |-> <<P(0), P(2), P(15)>>],
      [path |-> <<"/", "p", "r", "o", "d", "u", "c", "t", "s">>,
       pageviews |-> 200, avg_time |-> <<P(0), P(1), P(45)>>],
      [path |-> <<"/", "a", "b", "o", "u", "t">>,
       pageviews |-> 150, avg_time |-> <<P(0), P(1), P(20)>>],
      [path |-> <<"/", "c", "o", "n", "t", "a", "c", "t">>,
       pageviews |-> 100, avg_time |-> <<P(0), P(0), P(55)>>],
      [path |-> <<"/", "b", "l", "o", "g">>,
       pageviews |-> 150, avg_time |-> <<P(0), P(3), P(10)>>]>>

SampleDaily == <<<<1, 1>>, <<2, 0>>, <<3, 1>>, <<4, 1>>>>
SampleMetrics ==
    [visitors |-> [total |-> 3, daily |-> SampleDaily],
     pageviews |-> [total |-> 9, daily |-> <<<<1, 3>>, <<2, 0>>, <<3, 3>>, <<4, 3>>>>],
     pages_per_session |-> 300]
SampleBundle ==
    [report_name |-> "Traffico del sito web",
     start_date |-> "2025-05-01",
     end_date |-> "2025-05-04",
     metrics |-> SampleMetrics,
     traffic_sources |-> <<<<"direct", 2>>, <<"organic", 1>>>>,
     top_pages |-> <<SamplePage>>,
     devices |-> <<<<"desktop", 1>>, <<"mobile", 1>>>>]

\* a bundle with a flagged day, low shares and the five sample pages
AnomalousBundle ==
    [SampleBundle EXCEPT
        !.metrics = [visitors |-> [total |-> 5,
                                   daily |-> Dated(<<1, 1, 1, 1, 1, 0>>)],
                     pageviews |-> [total |-> 9],
                     pages_per_session |-> 180],
        !.traffic_sources = BelowThresholdSources,
        !.devices = <<<<"mobile", 29>>, <<"desktop", 71>>>>,
        !.top_pages = SamplePages]

\* the bundle of the sample with a week of daily visitors
WeekExample == Dated(<<100, 110, 120, 130, 140, 70, 80>>)
WeekBundle ==
    [SampleBundle EXCEPT
        !.metrics = [visitors |-> [total |-> 750, daily |-> WeekExample],
                     pageviews |-> [total |-> 2625],
                     pages_per_session |-> 350]]

\* every subset of the fields of a record
Partial(r) == {[k \in F |-> r[k]] : F \in SUBSET DOMAIN r}

MetricsVariants ==
    {[k \in F |-> m[k]] :
        F \in SUBSET {"visitors", "pageviews", "pages_per_session"},
        m \in {[visitors |-> v, pageviews |-> pv, pages_per_session |-> pps] :
                  v \in Partial(SampleMetrics.visitors),
                  pv \in Partial(SampleMetrics.pageviews),
                  pps \in {150, 200, 300}}}

Dict(d) == [type |-> "dict", d |-> d]

RawBundles ==
    Partial(SampleBundle)
    \cup {[metrics |-> m] : m \in MetricsVariants}
    \cup {[metrics |-> [visitors |-> [daily |-> s]]] :
              s \in DailySeries \cup IncreasingSeries \cup DecreasingSeries
                      \cup {SpikeExample}}
    \cup {[traffic_sources |-> m] : m \in SourceMappings \cup SourceExamples}
    \cup {[devices |-> m] : m \in DeviceMappings \cup DeviceExamples}
    \cup {[top_pages |-> l] : l \in PageLists \cup {SamplePages}}
    \cup {AnomalousBundle}
    \cup {b \in Partial(WeekBundle) : "metrics" \in DOMAIN b}

\* the extracted_data of DataExtractionAgent.run: a mapping of another schema
ExtractedData ==
    [metrics |-> [users |-> 1234, sessions |-> 2345, pageviews |-> 5678,
                  bounce_rate |-> 4567, avg_session_duration |-> 12050],
     dimensions |-> [date |-> <<"2023-01-01", "2023-01-02", "2023-01-03",
                               "2023-01-04", "2023-01-05">>,
                     device |-> <<"desktop", "mobile", "tablet">>,
                     channel |-> <<"organic", "direct", "referral", "social",
                                   "email">>]]

NonMappings == {[type |-> "NoneType"], [type |-> "list"], [type |-> "str"]}

\* a mapping of that other schema, as the tests hand it to the processing stage
ForeignBundle == [metrics |-> [users |-> 100],
                  dimensions |-> [date |-> <<"2025-05-29">>]]

RawRequests == {Dict(d) : d \in RawBundles \cup {ForeignBundle}} \cup NonMappings

(***************************************************************************)
(* State of one run of WebInsightsAssistant._execute_workflow              *)
(***************************************************************************)
VARIABLES
    raw,              \* the raw_data argument
    coord,            \* "legacy": src/webinsights_integration.py,
                      \* "adk": src/src/webinsights_integration.py
    pc,               \* position of the coordinator in _execute_workflow
    calls,            \* history: the stages invoked so far, in order
    stage_returned,   \* history: the data the processing stage returned
    processed_data,   \* locals of the legacy coordinator
    insights,
    visualizations,
    state,            \* the state dict of the adk coordinator
    results,          \* the value returned to the caller
    error,            \* the exception that left _execute_workflow
    insight_history,          \* InsightGenerationAgent.insight_history
    recommendation_history,   \* RecommendationAgent.recommendation_history
    last_extraction           \* DataExtractionAgent.last_extraction

vars == <<raw, coord, pc, calls, stage_returned, processed_data, insights,
          visualizations, state, results, error, insight_history,
          recommendation_history, last_extraction>>

agent_fields == <<insight_history, recommendation_history, last_extraction>>

None == [none |-> TRUE]
Timestamps == {"t1", "t2"}

\* the requests and the states the run(state) agents are called on
MaxRuns == 4
AgentRequests == {[type |-> "str"], Dict([property_id |-> "GA4_PROPERTY_ID"])}
AgentStates ==
    {[request_data |-> r] : r \in AgentRequests}
    \cup {[request_data |-> r, timestamp |-> t] :
              r \in AgentRequests, t \in Timestamps}
    \cup {[processed_data |-> [users |-> 100, trend |-> "up"]]}

\* "legacy" and "adk": one run of a coordinator on a raw request;
\* "agents": the run(state) agents called one after another on a state dict
Init ==
    /\ \/ /\ coord \in {"legacy", "adk"}
          /\ raw \in RawRequests
          /\ pc = "start"
          /\ state = None
       \/ /\ coord = "agents"
          /\ state \in AgentStates
          /\ raw = RecGet(state, "request_data", EmptyDict)
          /\ pc = "agents"
    /\ calls = <<>>
    /\ stage_returned = None
    /\ processed_data = None
    /\ insights = None
    /\ visualizations = None
    /\ results = None
    /\ error = "none"
    /\ insight_history = <<>>
    /\ recommendation_history = <<>>
    /\ last_extraction = EmptyDict

(***************************************************************************)
(* src/webinsights_integration.py: _execute_workflow.  The name            *)
(* AgentContext, which the module uses without importing it, is taken to   *)
(* be the AgentContext the agents and the tests import.                    *)
(***************************************************************************)
\* a coordinator that does not keep the raw data
DropRawData(data, raw_data) == data

\* processed_data["raw_data"] = raw_data
KeepRawData(data, raw_data) == [raw_data |-> raw_data] @@ data

\* Fase 1: the processing stage, then the coordinator keeps the raw data
ExecuteWorkflow_Process ==
    /\ coord = "legacy" /\ pc = "start"
    /\ calls' = Append(calls, "processing")
    /\ LET r == DataProcessingAgent_process(raw)
       IN  IF r.raised # "none"
           THEN /\ pc' = "raised"
                /\ error' = r.raised
                /\ UNCHANGED <<stage_returned, processed_data>>
           ELSE /\ pc' = "processed"
                /\ stage_returned' = r.data.data
                /\ processed_data' = KeepRawData(r.data.data, raw)
                /\ UNCHANGED error
    /\ UNCHANGED <<agent_fields, raw, coord, insights, visualizations, state, results>>

\* an insight stage that deletes the "principale" summary from the dict it
\* was handed instead of filtering a copy
ExecuteWorkflow_InsightDroppingSummary ==
    /\ coord = "legacy" /\ pc = "processed"
    /\ calls' = Append(calls, "insight")
    /\ insights' = InsightGenerationAgent_process(Dict(processed_data)).data.data
    /\ processed_data' =
           IF "fonti_traffico" \in DOMAIN processed_data
           THEN [processed_data EXCEPT
                    !.fonti_traffico = WithoutPrincipale(processed_data.fonti_traffico)]
           ELSE processed_data
    /\ pc' = "insighted"
    /\ UNCHANGED <<agent_fields, raw, coord, stage_returned, visualizations,
                   state, results, error>>

\* Fase 2: the insight stage
ExecuteWorkflow_Insight ==
    /\ coord = "legacy" /\ pc = "processed"
    /\ calls' = Append(calls, "insight")
    /\ insights' = InsightGenerationAgent_process(Dict(processed_data)).data.data
    /\ pc' = "insighted"
    /\ UNCHANGED <<agent_fields, raw, coord, stage_returned, processed_data, visualizations,
                   state, results, error>>

\* Fase 3: the visualization stage
ExecuteWorkflow_Visualize ==
    /\ coord = "legacy" /\ pc = "insighted"
    /\ calls' = Append(calls, "visualization")
    /\ LET visualization_input ==
               [processed_data |-> processed_data, insights |-> insights]
           r == VisualizationAgent_process(Dict(visualization_input))
       IN  IF r.raised # "none"
           THEN /\ pc' = "raised"
                /\ error' = r.raised
                /\ UNCHANGED visualizations
           ELSE /\ pc' = "visualized"
                /\ visualizations' = r.data.data
                /\ UNCHANGED error
    /\ UNCHANGED <<agent_fields, raw, coord, stage_returned, processed_data, insights, state,
                   results>>

\* a combined result that leaves the insights out
ExecuteWorkflow_ReturnWithoutInsights ==
    /\ coord = "legacy" /\ pc = "visualized"
    /\ results' = [raw_data |-> raw,
                   processed_data |-> processed_data,
                   visualizations |-> visualizations]
    /\ pc' = "done"
    /\ UNCHANGED <<agent_fields, raw, coord, calls, stage_returned, processed_data,
                   insights, visualizations, state, error>>

\* Combina tutti i risultati
ExecuteWorkflow_Return ==
    /\ coord = "legacy" /\ pc = "visualized"
    /\ results' = [raw_data |-> raw,
                   processed_data |-> processed_data,
                   insights |-> insights,
                   visualizations |-> visualizations]
    /\ pc' = "done"
    /\ UNCHANGED <<agent_fields, raw, coord, calls, stage_returned, processed_data, insights,
                   visualizations, state, error>>

(***************************************************************************)
(* src/src/webinsights_integration.py: _execute_workflow and               *)
(* _simulate_workflow; an exception is logged and raised again             *)
(***************************************************************************)
SimulatedTrends ==
    [users |-> [trend |-> "increasing", change_percentage |-> 1250,
                significance |-> "high"],
     bounce_rate |-> [trend |-> "decreasing", change_percentage |-> -520,
                      significance |-> "medium"]]
SimulatedDerivedMetrics ==
    [conversion_rate |-> 320, revenue_per_user |-> 1275, engagement_score |-> 780]
SimulatedInsights ==
    [summary |-> "12.5% increase in users",
     key_points |-> <<"user growth", "bounce rate", "mobile traffic">>,
     opportunities |-> <<"mobile page load speed", "blog content">>]
SimulatedVisualizations ==
    [traffic_trend |-> [type |-> "line_chart", title |-> "Website Traffic Trend"],
     traffic_sources |-> [type |-> "pie_chart", title |-> "Traffic Sources"]]
SimulatedRecommendations ==
    [strategic_focus |-> [primary |-> "Mobile Experience Optimization",
                          secondary |-> "Content Engagement Enhancement"],
     technology_recommendations |-> <<[name |-> "Progressive Web App (PWA)",
                                       relevance |-> "High"]>>]
Months == <<"February", "March", "April", "May">>
MonthlyVisits == 1000
MonthlyEngagement == 500

\* d[k] = v on a dict with a fixed set of optional keys
SetKey(d, k, v) == [x \in {k} |-> v] @@ d

ExecuteWorkflowAdk_Begin ==
    /\ coord = "adk" /\ pc = "start"
    /\ \E t \in Timestamps : state' = [request_data |-> raw, timestamp |-> t]
    /\ pc' = "running"
    /\ UNCHANGED <<agent_fields, raw, coord, calls, stage_returned, processed_data, insights,
                   visualizations, results, error>>

SimulatedProcessed(st) ==
    [metrics |-> st.request_data.d.metrics,
     trends |-> SimulatedTrends,
     derived_metrics |-> SimulatedDerivedMetrics]

\* state["processed_data"] = {"metrics": state["request_data"]["metrics"], ...}
SimulateWorkflow_Processed ==
    /\ coord = "adk" /\ pc = "running"
    /\ calls' = Append(calls, "processing")
    /\ IF ~IsDict(state.request_data)
       THEN /\ pc' = "raised" /\ error' = "TypeError"
            /\ UNCHANGED <<state, stage_returned>>
       ELSE IF "metrics" \notin DOMAIN state.request_data.d
       THEN /\ pc' = "raised" /\ error' = "KeyError"
            /\ UNCHANGED <<state, stage_returned>>
       ELSE /\ state' = SetKey(state, "processed_data", SimulatedProcessed(state))
            /\ stage_returned' = SimulatedProcessed(state)
            /\ pc' = "processed"
            /\ UNCHANGED error
    /\ UNCHANGED <<agent_fields, raw, coord, processed_data, insights,
                   visualizations, results>>

\* a simulation that runs the insight step twice
SimulateWorkflow_InsightsTwice ==
    /\ coord = "adk" /\ pc = "processed"
    /\ calls' = calls \o <<"insight", "insight">>
    /\ state' = SetKey(state, "insights", SimulatedInsights)
    /\ pc' = "insighted"
    /\ UNCHANGED <<agent_fields, raw, coord, stage_returned, processed_data, insights,
                   visualizations, results, error>>

SimulateWorkflow_Insights ==
    /\ coord = "adk" /\ pc = "processed"
    /\ calls' = Append(calls, "insight")
    /\ state' = SetKey(state, "insights", SimulatedInsights)
    /\ pc' = "insighted"
    /\ UNCHANGED <<agent_fields, raw, coord, stage_returned, processed_data, insights,
                   visualizations, results, error>>

SimulateWorkflow_Visualizations ==
    /\ coord = "adk" /\ pc = "insighted"
    /\ calls' = Append(calls, "visualization")
    /\ state' = SetKey(state, "visualizations", SimulatedVisualizations)
    /\ pc' = "visualized"
    /\ UNCHANGED <<agent_fields, raw, coord, stage_returned, processed_data, insights,
                   visualizations, results, error>>

SimulateWorkflow_Recommendations ==
    /\ coord = "adk" /\ pc = "visualized"
    /\ calls' = Append(calls, "recommendation")
    /\ state' = SetKey(state, "recommendations", SimulatedRecommendations)
    /\ pc' = "recommended"
    /\ UNCHANGED <<agent_fields, raw, coord, stage_returned, processed_data, insights,
                   visualizations, results, error>>

\* the results dict; raw_data["start_date"] and ["end_date"] may be missing
ExecuteWorkflowAdk_Return ==
    /\ coord = "adk" /\ pc = "recommended"
    /\ IF {"start_date", "end_date"} \subseteq DOMAIN raw.d
       THEN /\ results' =
                  [raw_data |-> raw,
                   processed_data |-> RecGet(state, "processed_data", EmptyDict),
                   insights |-> RecGet(state, "insights", EmptyDict),
                   visualizations |-> RecGet(state, "visualizations", EmptyDict),
                   recommendations |-> RecGet(state, "recommendations", EmptyDict),
                   start_date |-> raw.d.start_date,
                   end_date |-> raw.d.end_date,
                   monthly_data |->
                       [i \in 1..Len(Months) |->
                           <<Months[i], [visits |-> MonthlyVisits,
                                         engagement |-> MonthlyEngagement]>>],
                   total_summary |->
                       [total_visits |-> Len(Months) * MonthlyVisits,
                        total_engagement |-> Len(Months) * MonthlyEngagement]]
            /\ pc' = "done"
            /\ UNCHANGED error
       ELSE pc' = "raised" /\ error' = "KeyError" /\ UNCHANGED results
    /\ UNCHANGED <<agent_fields, raw, coord, calls, stage_returned, processed_data, insights,
                   visualizations, state>>

(***************************************************************************)
(* The run(state) agents of src/src: each sets one key of the state dict   *)
(***************************************************************************)
AgentInsights ==
    [summary |-> "12.5% increase in users with a decreasing bounce rate",
     key_points |-> <<"user growth", "bounce rate", "mobile traffic",
                      "session duration", "organic search">>,
     opportunities |-> <<"mobile page load speed", "blog section",
                         "call-to-action", "social media", "checkout">>,
     practical_advice |-> <<"lazy loading", "visual content", "CTA buttons",
                            "landing pages", "checkout form">>]
AgentRecommendations ==
    [strategic_focus |-> [primary |-> "Mobile Experience Optimization",
                          secondary |-> "Content Engagement Enhancement"],
     technology_recommendations |->
         <<[name |-> "AR Product Visualization", relevance |-> "Emerging"],
           [name |-> "Micro-Conversion Tracking", relevance |-> "High"]>>]

\* an insight agent that numbers its insights by the runs it remembers
RunInsightNumbered(st, history) ==
    [state |-> SetKey(st, "insights",
                      [run |-> Len(history) + 1] @@ AgentInsights),
     history |-> Append(history,
                        [timestamp |-> RecGet(st, "timestamp", "unknown time"),
                         summary |-> AgentInsights.summary])]

\* InsightGenerationAgent.run(state) of an agent that remembers history:
\* the state it returns and the history it remembers afterwards
RunInsight(st, history) ==
    [state |-> SetKey(st, "insights", AgentInsights),
     history |-> Append(history,
                        [timestamp |-> RecGet(st, "timestamp", "unknown time"),
                         summary |-> AgentInsights.summary])]

\* RecommendationAgent.run(state), likewise
RunRecommendation(st, history) ==
    [state |-> SetKey(st, "recommendations", AgentRecommendations),
     history |-> Append(history,
                        [timestamp |-> RecGet(st, "timestamp", "unknown time"),
                         primary_focus |->
                             AgentRecommendations.strategic_focus.primary])]

OrchestrationAgent_run ==
    /\ coord = "agents" /\ Len(calls) < MaxRuns
    /\ calls' = Append(calls, "orchestration")
    /\ state' = SetKey(state, "orchestration",
                       [workflow_id |-> "analytics_workflow",
                        start_time |-> RecGet(state, "timestamp", ""),
                        status |-> "in_progress"])
    /\ UNCHANGED <<agent_fields, raw, coord, pc, stage_returned, processed_data,
                   insights, visualizations, results, error>>

DataExtractionAgent_run ==
    /\ coord = "agents" /\ Len(calls) < MaxRuns
    /\ calls' = Append(calls, "extraction")
    /\ last_extraction' = ExtractedData
    /\ state' = SetKey(state, "extracted_data", ExtractedData)
    /\ UNCHANGED <<insight_history, recommendation_history, raw, coord, pc,
                   stage_returned, processed_data, insights, visualizations,
                   results, error>>

\* an insight agent that also resets the processed data it read
InsightGenerationAgent_runResettingProcessed ==
    /\ coord = "agents" /\ Len(calls) < MaxRuns
    /\ calls' = Append(calls, "insight")
    /\ insight_history' =
           Append(insight_history,
                  [timestamp |-> RecGet(state, "timestamp", "unknown time"),
                   summary |-> AgentInsights.summary])
    /\ state' = SetKey(SetKey(state, "insights", AgentInsights),
                       "processed_data", EmptyDict)
    /\ UNCHANGED <<recommendation_history, last_extraction, raw, coord, pc,
                   stage_returned, processed_data, insights, visualizations,
                   results, error>>

InsightGenerationAgent_run ==
    /\ coord = "agents" /\ Len(calls) < MaxRuns
    /\ calls' = Append(calls, "insight")
    /\ insight_history' = RunInsight(state, insight_history).history
    /\ state' = RunInsight(state, insight_history).state
    /\ UNCHANGED <<recommendation_history, last_extraction, raw, coord, pc,
                   stage_returned, processed_data, insights, visualizations,
                   results, error>>

RecommendationAgent_run ==
    /\ coord = "agents" /\ Len(calls) < MaxRuns
    /\ calls' = Append(calls, "recommendation")
    /\ recommendation_history' =
           RunRecommendation(state, recommendation_history).history
    /\ state' = RunRecommendation(state, recommendation_history).state
    /\ UNCHANGED <<insight_history, last_extraction, raw, coord, pc,
                   stage_returned, processed_data, insights, visualizations,
                   results, error>>

Next ==
    \/ ExecuteWorkflow_Process
    \/ ExecuteWorkflow_Insight
    \/ ExecuteWorkflow_Visualize
    \/ ExecuteWorkflow_Return
    \/ ExecuteWorkflowAdk_Begin
    \/ SimulateWorkflow_Processed
    \/ SimulateWorkflow_Insights
    \/ SimulateWorkflow_Visualizations
    \/ SimulateWorkflow_Recommendations
    \/ ExecuteWorkflowAdk_Return
    \/ OrchestrationAgent_run
    \/ DataExtractionAgent_run
    \/ InsightGenerationAgent_run
    \/ RecommendationAgent_run

Spec == Init /\ [][Next]_vars

(***************************************************************************)
(* DataProcessingAgent._simplify_page_path called on a path, and again on  *)
(* the name it returned                                                    *)
(***************************************************************************)
MaxPathLen == 3
PathChars == {"/", "-", "a", "B"}
PathStrings == UNION {[1..n -> PathChars] : n \in 0..MaxPathLen} \cup {HomePage}

PathInit ==
    /\ coord = "paths"
    /\ raw \in PathStrings
    /\ pc = "start"
    /\ state = None
    /\ calls = <<>>
    /\ stage_returned = None
    /\ processed_data = None
    /\ insights = None
    /\ visualizations = None
    /\ results = None
    /\ error = "none"
    /\ insight_history = <<>>
    /\ recommendation_history = <<>>
    /\ last_extraction = EmptyDict

\* name = self._simplify_page_path(path)
SimplifyPagePath_Call ==
    /\ coord = "paths" /\ pc = "start"
    /\ calls' = Append(calls, "simplify")
    /\ stage_returned' = _simplify_page_path(raw)
    /\ pc' = "simplified"
    /\ UNCHANGED <<agent_fields, raw, coord, processed_data, insights,
                   visualizations, state, results, error>>

\* self._simplify_page_path(name)
SimplifyPagePath_CallOnName ==
    /\ coord = "paths" /\ pc = "simplified"
    /\ calls' = Append(calls, "simplify")
    /\ processed_data' = _simplify_page_path(stage_returned)
    /\ pc' = "resimplified"
    /\ UNCHANGED <<agent_fields, raw, coord, stage_returned, insights,
                   visualizations, state, results, error>>

PathNext ==
    \/ SimplifyPagePath_Call
    \/ SimplifyPagePath_CallOnName

PathSpec == PathInit /\ [][PathNext]_vars

(***************************************************************************)
(* The stages and the components of the program called on their own:       *)
(* coord names the one that is called, raw is what it is called on         *)
(***************************************************************************)
\* The metrics source (src/google_analytics_integration.py).  Date texts
\* are read against a calendar of consecutive days, the first a Monday.
Calendar ==
    <<"2024-01-01", "2024-01-02", "2024-01-03", "2024-01-04", "2024-01-05",
      "2024-01-06", "2024-01-07", "2024-01-08", "2024-01-09", "2024-01-10">>
CalendarDays == 1..Len(Calendar)
WellFormedDates == {Calendar[i] : i \in CalendarDays}
MalformedDates == {"2024-02-30", "01/01/2024", ""}
DateStrings == WellFormedDates \cup MalformedDates

\* the days datetime.now() may fall on (a week of the calendar precedes)
Clock == {d \in CalendarDays : d - 7 \in CalendarDays}

\* datetime.strptime(text, "%Y-%m-%d"): the day, or ValueError
strptime(text) ==
    IF text \in WellFormedDates
    THEN Returned(CHOOSE i \in CalendarDays : Calendar[i] = text)
    ELSE Raised("ValueError")

\* _get_sample_traffic_data(start_date, end_date) when the clock reads now;
\* pages_per_session is in hundredths
_get_sample_traffic_data(start_date, end_date, now) ==
    LET parsed == /\ strptime(start_date).raised = "none"
                  /\ strptime(end_date).raised = "none"
        start == IF parsed THEN strptime(start_date).data ELSE now - 7
        end == IF parsed THEN strptime(end_date).data ELSE now
        \* the days the loop visits
        days == [i \in 1..(IF start <= end THEN end - start + 1 ELSE 0) |->
                     start + i - 1]
        \* day.strftime("%Y-%m-%d")
        date_str(day) == Calendar[day]
        \* day.weekday(): Monday is 0
        day_of_week(day) == (day - 1) % 7
        daily_visitors(day) ==
            (IF day_of_week(day) < 5 THEN 100 ELSE 70) + day_of_week(day) * 10
        \* int(daily_visitors * 3.5)
        daily_pageviews(day) == (daily_visitors(day) * 35) \div 10
        visitors == [i \in 1..Len(days) |-> daily_visitors(days[i])]
        pageviews == [i \in 1..Len(days) |-> daily_pageviews(days[i])]
    IN  IF Sum(visitors) = 0
        THEN Raised("ZeroDivisionError")
        ELSE Returned(
            [report_name |-> "Traffico del sito web",
             start_date |-> start_date,
             end_date |-> end_date,
             metrics |->
                 [visitors |->
                      [total |-> Sum(visitors),
                       daily |-> [i \in 1..Len(days) |->
                                      <<date_str(days[i]), visitors[i]>>]],
                  pageviews |->
                      [total |-> Sum(pageviews),
                       daily |-> [i \in 1..Len(days) |->
                                      <<date_str(days[i]), pageviews[i]>>]],
                  pages_per_session |->
                      RoundHalfEven(100 * Sum(pageviews), Sum(visitors))]])

\* the (start_date, end_date) pairs get_website_traffic is called with
TrafficRequests ==
    {[start_date |-> s, end_date |-> e] : s \in DateStrings, e \in DateStrings}

\* The comparison abs(value - avg) > 2 * std_dev is made in binary floating
\* point.  IsAnomaly is its outcome whenever the two sides differ; when they
\* are equal and the mean sum / len has no exact binary value (len is 3 or 5
\* here and does not divide the sum), the rounding of avg and std_dev
\* decides, one way or the other.
RoundingDecides(values, i) ==
    LET n == Len(values)
        S == Sum(values)
        Q == SumSq(values)
        d == n * values[i] - S
    IN  /\ n >= 3
        /\ d * d = 4 * (n * Q - S * S)
        /\ d # 0
        /\ S % n # 0

\* daily series of three to five values
ShortSeries ==
    UNION {[1..n -> {4, 7}] : n \in {3, 4, 5}}
ShortSeriesRequests ==
    {Dict([metrics |-> [visitors |-> [daily |-> Dated(v)]]]) : v \in ShortSeries}

\* The HTTP application (src/src/app.py).  A credentials path is a text, ""
\* when none is given; the last one holds a null character.
NulPath == "credentials\\0.json"
CredentialPaths == {"", "credentials.json", NulPath}
PropertyIds == {"", "GA4_PROPERTY_ID"}

\* what os.path.exists(path) may do: a path the system cannot represent
\* gives False, or ValueError on an interpreter older than 3.8
ExistsOutcomes(path) ==
    IF path = NulPath THEN {"False", "ValueError"} ELSE {"True", "False"}

\* GoogleAnalyticsIntegration.authenticate(): what it returns and the
\* authenticated field afterwards (False when the integration was made)
authenticate(credentials_path, exists) ==
    IF credentials_path # "" /\ exists = "ValueError"
    THEN [returned |-> FALSE, authenticated |-> FALSE]
    ELSE [returned |-> TRUE, authenticated |-> TRUE]

\* the body shared by analyze() and get_insights(): the global assistant
\* afterwards, the status of the response, and whether analyze_website_data
\* was called and on what assistant; raised tells whether the analysis or
\* the writing of the report raised
HandleRequest(assistant, property_id, credentials_path, exists, raised) ==
    IF property_id = ""
    THEN [assistant |-> assistant, status |-> 400, analysis |-> "none"]
    ELSE LET auth == authenticate(credentials_path, exists)
             current == IF assistant = None
                        THEN [authenticated |-> auth.authenticated]
                        ELSE assistant
         IN  IF assistant = None /\ ~auth.returned
             THEN [assistant |-> current, status |-> 401, analysis |-> "none"]
             ELSE [assistant |-> current,
                   status |-> IF raised THEN 500 ELSE 200,
                   analysis |-> IF current.authenticated
                                THEN "authenticated" ELSE "unauthenticated"]

\* The agent application (src/src/adk_compatibility.py).  An agent is what
\* its process does with a context: return a response or raise.
AppAgentNames == {"extraction", "processing", "insight"}
AppAgents ==
    {[response |-> r, raises |-> b] : r \in {"fatto", "pronto"}, b \in BOOLEAN}

RECURSIVE RunAgentsUntilError(_, _, _)
\* a loop that gives up at the first agent that raises
RunAgentsUntilError(agents, input_data, out) ==
    IF agents = <<>> THEN out
    ELSE LET name == Head(agents)[1]
             agent == Head(agents)[2]
         IN  IF agent.raises
             THEN [results |-> DictSet(out.results, name,
                                       [error |-> "errore"]),
                   invoked |-> Append(out.invoked, name)]
             ELSE RunAgentsUntilError(Tail(agents), input_data,
                      [results |-> DictSet(out.results, name,
                                           [response |-> agent.response,
                                            data |-> input_data]),
                       invoked |-> Append(out.invoked, name)])

RECURSIVE RunAgents(_, _, _)
\* the loop of AgentApp.run over self.agents.items(): the results so far
\* and the names whose agent was invoked, in order
RunAgents(agents, input_data, out) ==
    IF agents = <<>> THEN out
    ELSE LET name == Head(agents)[1]
             agent == Head(agents)[2]
         IN  RunAgents(Tail(agents), input_data,
                 [results |->
                      DictSet(out.results, name,
                              IF agent.raises
                              THEN [error |-> "errore"]
                              ELSE [response |-> agent.response,
                                    data |-> input_data]),
                  invoked |-> Append(out.invoked, name)])

\* what the processing stage returns for the bundle with every category
ProcessedSample == _process_data(AnomalousBundle).data
InsightRequests == {Dict(d) : d \in Partial(ProcessedSample)} \cup NonMappings

\* the input of the visualization stage: entries of the processed data,
\* the raw request the coordinator keeps among them, and an insight bundle
VisualizationRequests ==
    {Dict(r) : r \in
        {[processed_data |-> pd] :
            pd \in Partial(KeepRawData(ProcessedSample, Dict(AnomalousBundle)))}
        \cup {[processed_data |-> pd, insights |-> ins] :
                  pd \in Partial(KeepRawData(ProcessedSample, Dict(AnomalousBundle))),
                  ins \in Partial(_generate_insights(ProcessedSample))}}
    \cup NonMappings

StageInit ==
    /\ \/ coord = "insight" /\ raw \in InsightRequests
       \/ coord = "visualization" /\ raw \in VisualizationRequests
       \/ coord = "processing_again" /\ raw \in RawRequests
       \/ coord \in {"insight_again", "recommendation_again"}
              /\ raw \in AgentStates
       \/ coord = "traffic" /\ raw \in TrafficRequests
       \/ coord = "anomalies" /\ raw \in ShortSeriesRequests
       \/ coord = "app" /\ raw = None
       \/ coord = "agent_app" /\ raw \in NonMappings
    /\ pc = "start"
    /\ \/ coord \notin {"traffic", "agent_app"} /\ state = None
       \/ coord = "agent_app" /\ state = EmptyDict
       \/ coord = "traffic"
              /\ state \in {[is_authenticated |-> b] : b \in BOOLEAN}
    /\ calls = <<>>
    /\ stage_returned = None
    /\ processed_data = None
    /\ insights = None
    /\ visualizations = None
    /\ results = None
    /\ error = "none"
    /\ insight_history = <<>>
    /\ recommendation_history = <<>>
    /\ last_extraction = EmptyDict

\* InsightGenerationAgent.process(AgentContext(request))
InsightStage_Process ==
    /\ coord = "insight" /\ pc = "start"
    /\ calls' = Append(calls, "insight")
    /\ stage_returned' = InsightGenerationAgent_process(raw)
    /\ pc' = "done"
    /\ UNCHANGED <<agent_fields, raw, coord, processed_data, insights,
                   visualizations, state, results, error>>

\* VisualizationAgent.process(AgentContext(request))
VisualizationStage_Process ==
    /\ coord = "visualization" /\ pc = "start"
    /\ calls' = Append(calls, "visualization")
    /\ stage_returned' = VisualizationAgent_process(raw)
    /\ pc' = "done"
    /\ UNCHANGED <<agent_fields, raw, coord, processed_data, insights,
                   visualizations, state, results, error>>

\* The actions below call a stage once more on the input raw: state is
\* what the call returned, stage_returned what the first call returned.
ProcessingStage_ProcessAgain ==
    /\ coord = "processing_again" /\ Len(calls) < MaxRuns
    /\ calls' = Append(calls, "processing")
    /\ state' = DataProcessingAgent_process(raw)
    /\ stage_returned' = IF calls = <<>> THEN DataProcessingAgent_process(raw)
           ELSE stage_returned
    /\ UNCHANGED <<agent_fields, raw, coord, pc, processed_data, insights,
                   visualizations, results, error>>

InsightGenerationAgent_runAgain ==
    /\ coord = "insight_again" /\ Len(calls) < MaxRuns
    /\ calls' = Append(calls, "insight")
    /\ state' = RunInsight(raw, insight_history).state
    /\ insight_history' = RunInsight(raw, insight_history).history
    /\ stage_returned' = IF calls = <<>> THEN RunInsight(raw, insight_history).state
           ELSE stage_returned
    /\ UNCHANGED <<recommendation_history, last_extraction, raw, coord, pc,
                   processed_data, insights, visualizations, results, error>>

RecommendationAgent_runAgain ==
    /\ coord = "recommendation_again" /\ Len(calls) < MaxRuns
    /\ calls' = Append(calls, "recommendation")
    /\ state' = RunRecommendation(raw, recommendation_history).state
    /\ recommendation_history' =
           RunRecommendation(raw, recommendation_history).history
    /\ stage_returned' =
           IF calls = <<>> THEN RunRecommendation(raw, recommendation_history).state
           ELSE stage_returned
    /\ UNCHANGED <<insight_history, last_extraction, raw, coord, pc,
                   processed_data, insights, visualizations, results, error>>

\* get_website_traffic(property_id, start_date, end_date); state holds the
\* fields of the integration object
GoogleAnalyticsIntegration_get_website_traffic ==
    /\ coord = "traffic" /\ pc = "start"
    /\ pc' = "done"
    /\ calls' = Append(calls, "traffic")
    /\ state' = [state EXCEPT !.is_authenticated = TRUE]
    /\ \E now \in Clock :
           stage_returned' =
               _get_sample_traffic_data(raw.start_date, raw.end_date, now)
    /\ UNCHANGED <<agent_fields, raw, coord, processed_data, insights,
                   visualizations, results, error>>

\* _process_data on a bundle with a daily series, the comparisons made in
\* floating point
ProcessingStage_ProcessData ==
    /\ coord = "anomalies" /\ pc = "start"
    /\ pc' = "done"
    /\ calls' = Append(calls, "processing")
    /\ LET daily_data == raw.d.metrics.visitors.daily
           values == Values(daily_data)
       IN  \E rounded \in SUBSET {i \in 1..Len(values) :
                                     RoundingDecides(values, i)} :
               LET idx == SortedSeq(AnomalyIndexes(values) \cup rounded)
               IN  stage_returned' =
                       [_process_data(raw.d).data EXCEPT !.anomalie =
                            [k \in 1..Len(idx) |->
                                 AnomalyEntry(daily_data, idx[k])]]
    /\ UNCHANGED <<agent_fields, raw, coord, processed_data, insights,
                   visualizations, state, results, error>>

\* POST /analyze: state is the global assistant, calls the requests served
analyze ==
    /\ coord = "app" /\ Len(calls) < MaxRuns
    /\ \E property_id \in PropertyIds, credentials_path \in CredentialPaths,
          raised \in BOOLEAN :
           \E exists \in ExistsOutcomes(credentials_path) :
               LET h == HandleRequest(state, property_id, credentials_path,
                                      exists, raised)
               IN  /\ state' = h.assistant
                   /\ calls' = Append(calls, [route |-> "/analyze",
                                              status |-> h.status,
                                              analysis |-> h.analysis])
    /\ UNCHANGED <<agent_fields, raw, coord, pc, stage_returned,
                   processed_data, insights, visualizations, results, error>>

\* GET /api/insights: the credentials path comes from the environment
get_insights ==
    /\ coord = "app" /\ Len(calls) < MaxRuns
    /\ \E property_id \in PropertyIds, credentials_path \in CredentialPaths,
          raised \in BOOLEAN :
           \E exists \in ExistsOutcomes(credentials_path) :
               LET h == HandleRequest(state, property_id, credentials_path,
                                      exists, raised)
               IN  /\ state' = h.assistant
                   /\ calls' = Append(calls, [route |-> "/api/insights",
                                              status |-> h.status,
                                              analysis |-> h.analysis])
    /\ UNCHANGED <<agent_fields, raw, coord, pc, stage_returned,
                   processed_data, insights, visualizations, results, error>>

\* AgentApp.register_agent(name, agent): state is self.agents
AgentApp_register_agent ==
    /\ coord = "agent_app" /\ pc = "start"
    /\ \E name \in AppAgentNames, agent \in AppAgents :
           state' = DictSet(state, name, agent)
    /\ UNCHANGED <<agent_fields, raw, coord, pc, calls, stage_returned,
                   processed_data, insights, visualizations, results, error>>

\* AgentApp.run(input_data): calls lists the agents invoked, by name
AgentApp_run ==
    /\ coord = "agent_app" /\ pc = "start"
    /\ pc' = "done"
    /\ LET out == RunAgents(state, raw,
                            [results |-> EmptyDict, invoked |-> <<>>])
       IN  /\ results' = out.results
           /\ calls' = calls \o out.invoked
    /\ UNCHANGED <<agent_fields, raw, coord, stage_returned, processed_data,
                   insights, visualizations, state, error>>

StageNext ==
    \/ InsightStage_Process
    \/ VisualizationStage_Process
    \/ ProcessingStage_ProcessAgain
    \/ InsightGenerationAgent_runAgain
    \/ RecommendationAgent_runAgain
    \/ GoogleAnalyticsIntegration_get_website_traffic
    \/ ProcessingStage_ProcessData
    \/ analyze
    \/ get_insights
    \/ AgentApp_register_agent
    \/ AgentApp_run

StageSpec == StageInit /\ [][StageNext]_vars

(***************************************************************************)
(* Properties of the coordinators and of the processing stage              *)
(***************************************************************************)
IsPrefix(s, t) == Len(s) <= Len(t) /\ \A i \in 1..Len(s) : s[i] = t[i]
IsCoordinator == coord \in {"legacy", "adk"}
LegacyProcessed == coord = "legacy" /\ IsDict(raw) /\ stage_returned # None

\* the fields of a raw bundle and of its metrics that _process_data reads
BundleFields == {"report_name", "start_date", "end_date", "metrics",
                 "traffic_sources", "top_pages", "devices"}
MetricFields == {"visitors", "pageviews", "pages_per_session"}
Conforms(request) ==
    /\ IsDict(request)
    /\ DOMAIN request.d \subseteq BundleFields
    /\ "metrics" \in DOMAIN request.d =>
           DOMAIN request.d.metrics \subseteq MetricFields

\* C1: when the raw bundle is not a mapping the workflow stops at the
\* processing stage: no later stage is invoked, no combined result is
\* returned and the error is surfaced to the caller.
C1_InvalidShapeHalts ==
    (IsCoordinator /\ ~IsDict(raw)) =>
        /\ Len(calls) <= 1
        /\ results = None
        /\ calls # <<>> => (pc = "raised" /\ error # "none")

\* C2 as the specification states it: the stages run once each in the order
\* processing, insight, recommendation, visualization, and a run that is
\* done has run them all.
C2_SpecStageOrder ==
    (IsCoordinator /\ IsDict(raw)) =>
        LET order == <<"processing", "insight", "recommendation", "visualization">>
        IN  /\ IsPrefix(calls, order)
            /\ pc = "done" => calls = order

\* C2 amended: the stages run once each in the order processing, insight,
\* visualization, followed by recommendation in the coordinator that has a
\* recommendation step; nothing is repeated or skipped, and a run returns
\* its result exactly when it is done, after all of its stages.
C2_FixedStageOrder ==
    IsCoordinator =>
        LET order == IF coord = "legacy"
                     THEN <<"processing", "insight", "visualization">>
                     ELSE <<"processing", "insight", "visualization",
                            "recommendation">>
        IN  /\ IsPrefix(calls, order)
            /\ pc = "done" => calls = order
            /\ results # None <=> pc = "done"
            /\ error # "none" <=> pc = "raised"

C2_Witness ==
    coord = "adk" /\ pc = "done" /\ Len(calls) = 4 /\ results # None

\* C3 as the specification states it: the combined result of a successful
\* run has the five entries raw data, processed data, insights,
\* recommendations and visualizations.
C3_FiveEntries ==
    (IsCoordinator /\ IsDict(raw) /\ pc = "done") =>
        {"raw_data", "processed_data", "insights", "recommendations",
         "visualizations"} \subseteq DOMAIN results

\* C3 amended: the combined result of a successful run always has the raw
\* data, the processed data, the insights and the visualizations, as the
\* stages produced them; it has the recommendations exactly in the
\* coordinator that has a recommendation step.
C3_ResultEntries ==
    (IsCoordinator /\ pc = "done") =>
        /\ {"raw_data", "processed_data", "insights", "visualizations"}
               \subseteq DOMAIN results
        /\ "recommendations" \in DOMAIN results <=> coord = "adk"
        /\ results.raw_data = raw
        /\ coord = "legacy" =>
               /\ results.processed_data = processed_data
               /\ results.insights = insights
               /\ results.visualizations = visualizations
        /\ coord = "adk" =>
               /\ results.processed_data = state.processed_data
               /\ results.insights = state.insights
               /\ results.visualizations = state.visualizations
               /\ results.recommendations = state.recommendations

C3_Witness ==
    coord = "legacy" /\ pc = "done" /\ "recommendations" \notin DOMAIN results

\* the key of the state a stage owns
OwnedKey(stage) ==
    CASE stage = "processing" -> "processed_data"
      [] stage = "insight" -> "insights"
      [] stage = "visualization" -> "visualizations"
      [] stage = "recommendation" -> "recommendations"
      [] stage = "extraction" -> "extracted_data"
      [] stage = "orchestration" -> "orchestration"

\* C4: a stage run on the shared state adds or replaces only the key it
\* owns: every other key keeps its value and no other key appears; the raw
\* bundle and the values earlier stages returned stay as they were.
C4_StageWritesOwnKey ==
    [][/\ raw' = raw
       /\ processed_data # None => processed_data' = processed_data
       /\ insights # None => insights' = insights
       /\ visualizations # None => visualizations' = visualizations
       /\ (state # None /\ calls' # calls) =>
              LET own == OwnedKey(calls'[Len(calls')])
              IN  /\ DOMAIN state' \subseteq DOMAIN state \cup {own}
                  /\ \A k \in DOMAIN state \ {own} :
                         k \in DOMAIN state' /\ state'[k] = state[k]]_vars

C4_Witness ==
    /\ coord = "agents"
    /\ calls # <<>> /\ calls[Len(calls)] = "insight"
    /\ {"processed_data", "insights"} \subseteq DOMAIN state
    /\ state.processed_data = [users |-> 100, trend |-> "up"]

\* C5 as the specification states it: the processed data are never modified
\* after the processing stage returns; to the end of the run they equal
\* what the stage returned.
C5_ProcessedNeverModified ==
    /\ (coord = "legacy" /\ IsDict(raw) /\ processed_data # None) =>
           processed_data = stage_returned
    /\ (IsCoordinator /\ IsDict(raw) /\ pc = "done") =>
           results.processed_data = stage_returned

\* C5 amended: every key the processing stage returned keeps its value to
\* the end of the run; the one change is the key raw_data, holding the raw
\* bundle, that the coordinator of src/webinsights_integration.py adds
\* before it invokes the insight stage.
C5_ProcessedKeysKept ==
    /\ (coord = "legacy" /\ processed_data # None) =>
           /\ \A k \in DOMAIN stage_returned :
                  k \in DOMAIN processed_data
                  /\ processed_data[k] = stage_returned[k]
           /\ DOMAIN processed_data = DOMAIN stage_returned \cup {"raw_data"}
           /\ processed_data.raw_data = raw
    /\ (coord = "legacy" /\ pc = "done") =>
           results.processed_data = processed_data
    /\ (coord = "adk" /\ "processed_data" \in DOMAIN state) =>
           state.processed_data = stage_returned
    /\ (coord = "adk" /\ pc = "done") =>
           results.processed_data = stage_returned

C5_Witness ==
    /\ coord = "legacy" /\ pc = "done"
    /\ "fonti_traffico" \in DOMAIN stage_returned
    /\ "raw_data" \notin DOMAIN stage_returned
    /\ "raw_data" \in DOMAIN results.processed_data

\* C6: given input of the wrong shape the processing stage signals the
\* invalid format, by the error data or by an exception, and does not
\* return a processed result.
C6_MalformedSignalled ==
    (coord = "legacy" /\ pc # "start" /\ ~Conforms(raw)) =>
        \/ error # "none"
        \/ stage_returned = InvalidFormat

\* C7: on a partial raw bundle, here one without metrics, the processing
\* stage completes without raising and yields the defaults: no core metric,
\* no trend entry and an empty anomaly list.
C7_PartialNeverRaises ==
    (coord = "legacy" /\ pc # "start" /\ Conforms(raw)
       /\ "metrics" \notin DOMAIN raw.d) =>
        /\ error = "none"
        /\ stage_returned # None
        /\ stage_returned.metriche_principali = EmptyDict
        /\ stage_returned.tendenze = EmptyDict
        /\ stage_returned.anomalie = <<>>

\* C8: on a raw bundle of integer counts and integer daily values the
\* processing stage never raises a division-by-zero error.
C8_NoDivisionByZero ==
    (coord = "legacy" /\ Conforms(raw)) => error # "ZeroDivisionError"

NonNegative(counts) == \A i \in 1..Len(counts) : counts[i][2] >= 0

\* the percentages derived for the keys of counts, read from the entries
\* of out; where the entry of a key is not a share entry any more, the
\* percentage is the share computed for the key
DerivedPercentages(counts, out) ==
    LET total == Sum(Values(counts))
    IN  [i \in 1..Len(counts) |->
            LET e == Get(out, counts[i][1])
            IN  IF "valore" \in DOMAIN e THEN e.percentuale
                ELSE Percentuale(counts[i][2], total)]

\* the pairs of a mapping of the raw bundle and the entries derived from it
ShareFields ==
    {f \in {<<"traffic_sources", "fonti_traffico">>, <<"devices", "dispositivi">>} :
        /\ f[1] \in DOMAIN raw.d
        /\ raw.d[f[1]] # <<>>
        /\ NonNegative(raw.d[f[1]])}

\* C9 as the specification states it: the percentages derived from a
\* non-empty mapping of nonnegative counts sum to 100 within 0.1, and all
\* are 0 when every count is 0.
C9_SharesSumTo100 ==
    LegacyProcessed =>
        \A f \in ShareFields :
            LET counts == raw.d[f[1]]
                pct == DerivedPercentages(counts, stage_returned[f[2]])
            IN  IF Sum(Values(counts)) > 0
                THEN Abs(Sum(pct) - 10000) <= 10
                ELSE \A i \in 1..Len(pct) : pct[i] = 0

\* C9 amended: each percentage derived from a non-empty mapping of
\* nonnegative counts with a positive total is the share of its key rounded
\* to two decimals, so the percentages sum to 100 within 0.005 for each
\* key of the mapping (within 0.1 up to 20 keys); all are 0 when every
\* count is 0.  The entry of a source named "principale" is replaced by the
\* summary of the main source; its share counts in the sum.
C9_SharesSumPerKey ==
    LegacyProcessed =>
        \A f \in ShareFields :
            LET counts == raw.d[f[1]]
                out == stage_returned[f[2]]
                pct == DerivedPercentages(counts, out)
                total == Sum(Values(counts))
            IN  /\ \A i \in 1..Len(counts) :
                       /\ HasKey(out, counts[i][1])
                       /\ total > 0 =>
                              /\ 2 * Abs(pct[i] * total - 10000 * counts[i][2])
                                     <= total
                              /\ pct[i] >= 0
                /\ IF total > 0
                   THEN 2 * Abs(Sum(pct) - 10000) <= Len(counts)
                   ELSE \A i \in 1..Len(pct) : pct[i] = 0

C9_Witness ==
    /\ LegacyProcessed
    /\ "traffic_sources" \in DOMAIN raw.d
    /\ Len(raw.d.traffic_sources) > 20
    /\ NonNegative(raw.d.traffic_sources)
    /\ Abs(Sum(DerivedPercentages(raw.d.traffic_sources,
                                  stage_returned.fonti_traffico)) - 10000) > 10

\* C10: the main source reported for a non-empty mapping of sources is a
\* key of maximal count, and among the keys of maximal count it is the
\* first in the order of the mapping; its percentage is that key's share.
C10_MainSourceFirstMax ==
    (LegacyProcessed /\ "traffic_sources" \in DOMAIN raw.d
       /\ raw.d.traffic_sources # <<>>) =>
        LET sources == raw.d.traffic_sources
            main == Get(stage_returned.fonti_traffico, "principale")
        IN  \E i \in 1..Len(sources) :
                /\ main.nome = sources[i][1]
                /\ \A j \in 1..Len(sources) : sources[j][2] <= sources[i][2]
                /\ \A j \in 1..(i - 1) : sources[j][2] < sources[i][2]
                /\ main.percentuale =
                       Percentuale(sources[i][2], Sum(Values(sources)))

C10_Witness ==
    /\ LegacyProcessed
    /\ "traffic_sources" \in DOMAIN raw.d
    /\ raw.d.traffic_sources = <<<<"direct", 50>>, <<"organic", 50>>>>
    /\ Get(stage_returned.fonti_traffico, "principale").nome = "direct"

(***************************************************************************)
(* Properties of the trend and of the anomaly list                         *)
(***************************************************************************)
\* the daily values of the raw bundle of a processed run, in mapping order
DailyOf(request) == Values(request.d.metrics.visitors.daily)
DailyProcessed == LegacyProcessed /\ HasDaily(raw.d)

\* C11: the trend compares the mean of the first floor(n/2) daily values
\* with the mean of the others; the entry exists exactly when n >= 2 and the
\* first mean is > 0, its direction is growth when the second mean is the
\* greater one and decline otherwise, and its magnitude is the absolute
\* rate of change in percent rounded to 2 decimals.
C11_TrendOfHalves ==
    /\ (LegacyProcessed /\ ~HasDaily(raw.d)) =>
           stage_returned.tendenze = EmptyDict
    /\ DailyProcessed =>
           LET v == DailyOf(raw)
               n == Len(v)
               n1 == n \div 2
               n2 == n - n1
               s1 == Sum(SubSeq(v, 1, n1))
               s2 == Sum(SubSeq(v, n1 + 1, n))
               t == stage_returned.tendenze
           IN  /\ "visitatori" \in DOMAIN t <=> (n >= 2 /\ s1 > 0)
               /\ "visitatori" \in DOMAIN t =>
                      /\ t.visitatori.direzione =
                             IF s2 * n1 > s1 * n2 THEN "crescita"
                             ELSE "decrescita"
                      /\ t.visitatori.percentuale >= 0
                      /\ 2 * Abs(t.visitatori.percentuale * s1 * n2
                                 - 10000 * Abs(s2 * n1 - s1 * n2)) <= s1 * n2

C11_Witness ==
    /\ DailyProcessed
    /\ Len(DailyOf(raw)) = 5
    /\ "visitatori" \in DOMAIN stage_returned.tendenze
    /\ stage_returned.tendenze.visitatori.direzione = "crescita"
    /\ DailyOf(raw)[3] > DailyOf(raw)[2]

StrictlyIncreasing(v) == \A i \in 1..(Len(v) - 1) : v[i] < v[i + 1]
StrictlyDecreasing(v) == \A i \in 1..(Len(v) - 1) : v[i] > v[i + 1]
TrendDirection(processed) ==
    IF "visitatori" \in DOMAIN processed.tendenze
    THEN processed.tendenze.visitatori.direzione
    ELSE "none"

\* C12 as the specification states it: an increasing series of daily
\* values, here of 2 values or more and none negative, is reported as growth
\* and a decreasing one as decline.
C12_MonotoneTrend ==
    (/\ DailyProcessed
     /\ Len(DailyOf(raw)) >= 2
     /\ \A i \in 1..Len(DailyOf(raw)) : DailyOf(raw)[i] >= 0) =>
        /\ StrictlyIncreasing(DailyOf(raw)) =>
               TrendDirection(stage_returned) = "crescita"
        /\ StrictlyDecreasing(DailyOf(raw)) =>
               TrendDirection(stage_returned) = "decrescita"

\* C12 amended: a strictly increasing series of at least 2 daily values
\* whose first-half mean is > 0 is reported as growth, a strictly decreasing
\* one whose first-half mean is > 0 as decline; a series of fewer than 2
\* values or with a first-half mean of 0 or less has no trend entry.
C12_MonotoneTrendPositiveMean ==
    DailyProcessed =>
        LET v == DailyOf(raw)
            positive == Len(v) >= 2 /\ Sum(SubSeq(v, 1, Len(v) \div 2)) > 0
        IN  /\ (positive /\ StrictlyIncreasing(v)) =>
                   TrendDirection(stage_returned) = "crescita"
            /\ (positive /\ StrictlyDecreasing(v)) =>
                   TrendDirection(stage_returned) = "decrescita"
            /\ ~positive => TrendDirection(stage_returned) = "none"

C12_Witness ==
    /\ DailyProcessed
    /\ Len(DailyOf(raw)) >= 4
    /\ StrictlyDecreasing(DailyOf(raw))
    /\ TrendDirection(stage_returned) = "decrescita"

\* C13 as the specification states it: the last day of the series
\* 100, 100, 100, 100, 500 is flagged as a spike.
C13_SpikeFlagged ==
    (DailyProcessed /\ raw.d.metrics.visitors.daily = SpikeExample) =>
        \E k \in 1..Len(stage_returned.anomalie) :
            /\ stage_returned.anomalie[k].tipo = "picco"
            /\ stage_returned.anomalie[k].data = 5

\* C13 amended: in the series 100, 100, 100, 100, 500 the last day lies
\* exactly two standard deviations (2 * 160) from the mean (180), which is
\* not strictly more than two, so no day is flagged and the anomaly list
\* is empty.
C13_SpikeAtThreshold ==
    (DailyProcessed /\ raw.d.metrics.visitors.daily = SpikeExample) =>
        LET v == DailyOf(raw)
        IN  /\ Sum(v) = 5 * 180
            /\ 5 * SumSq(v) - Sum(v) * Sum(v) = 25 * 160 * 160
            /\ Abs(v[5] - 180) = 2 * 160
            /\ stage_returned.anomalie = <<>>

C13_Witness ==
    /\ DailyProcessed
    /\ DailyOf(raw) = <<100, 100, 100, 100, 500>>
    /\ stage_returned.anomalie = <<>>

\* C14: for a series of at least 3 daily values the anomaly list holds
\* exactly the days whose distance from the mean is more than twice the
\* population standard deviation, in the order of the days, each a spike
\* when above the mean and a drop otherwise; a shorter series and a
\* constant series give an empty list.
C14_AnomaliesExactlyOutliers ==
    (coord = "legacy" /\ pc # "start" /\ Conforms(raw) /\ HasDaily(raw.d)) =>
        /\ stage_returned # None
        /\ LET v == DailyOf(raw)
               n == Len(v)
               dist2(i) == (n * v[i] - Sum(v)) * (n * v[i] - Sum(v))
               out == {i \in 1..n :
                          n >= 3 /\ dist2(i) > 4 * (n * SumSq(v) - Sum(v) * Sum(v))}
               a == stage_returned.anomalie
           IN  /\ Len(a) = Cardinality(out)
               /\ \A k \in 1..Len(a) :
                      /\ a[k].data \in out
                      /\ a[k].valore = v[a[k].data]
                      /\ a[k].tipo = IF n * v[a[k].data] > Sum(v)
                                     THEN "picco" ELSE "calo"
               /\ \A k \in 1..(Len(a) - 1) : a[k].data < a[k + 1].data

(***************************************************************************)
(* Properties of the page names                                            *)
(***************************************************************************)
\* C15: simplifying a page path is idempotent: simplifying the name it
\* returned gives that name again; "/" becomes "Home Page" and "Home Page"
\* stays "Home Page".
C15_SimplifyIdempotent ==
    (coord = "paths" /\ pc = "resimplified") =>
        /\ processed_data = stage_returned
        /\ raw = <<"/">> => stage_returned = HomePage
        /\ raw = HomePage => stage_returned = HomePage

(***************************************************************************)
(* Properties of the insight stage.  Percentages are in hundredths.        *)
(***************************************************************************)
LegacyInsighted == LegacyProcessed /\ insights # None

\* what the processing stage derived, empty when it derived no such entry
ProcessedSources == RecGet(stage_returned, "fonti_traffico", <<>>)
ProcessedDevices == RecGet(stage_returned, "dispositivi", <<>>)
ProcessedPages == RecGet(stage_returned, "pagine_principali", <<>>)

\* the bullets of a list that were built by one of the given rules
RECURSIVE OfRules(_, _)
OfRules(bullets, rules) ==
    IF bullets = <<>> THEN <<>>
    ELSE (IF Head(bullets).rule \in rules THEN <<Head(bullets)>> ELSE <<>>)
         \o OfRules(Tail(bullets), rules)

\* the (name, percentage) pairs of the per-source entries of a processed
\* mapping that satisfy a test, in mapping order
SourcesWhere(fonti, Test(_, _)) ==
    LET kept == FilterIndexes(fonti,
                    {i \in 1..Len(fonti) :
                        /\ fonti[i][1] # "principale"
                        /\ Test(fonti[i][1], fonti[i][2].percentuale)}, 1)
    IN  [i \in 1..Len(kept) |-> <<kept[i][1], kept[i][2].percentuale>>]

GrowthBullets ==
    LET b == OfRules(insights.opportunita, {"crescita_canale"})
    IN  [i \in 1..Len(b) |-> <<b[i].source.capitalized, b[i].percentuale>>]

MainName(fonti) ==
    IF HasKey(fonti, "principale") THEN Get(fonti, "principale").nome
    ELSE "none"

\* C16 as the specification states it, for sources of positive counts: the
\* growth-potential bullets are, in mapping order, the sources that are not
\* the dominant one and whose share is below 15 percent; the dominant
\* source never gets one.
C16_GrowthBulletsSkipMain ==
    (/\ LegacyInsighted
     /\ "traffic_sources" \in DOMAIN raw.d
     /\ \A i \in 1..Len(raw.d.traffic_sources) :
            raw.d.traffic_sources[i][2] > 0) =>
        LET fonti == ProcessedSources
            Low(name, pct) == name # MainName(fonti) /\ pct < 1500
        IN  GrowthBullets = SourcesWhere(fonti, Low)

\* C16 amended: the growth-potential bullets are, in mapping order, the
\* per-source entries of the processed mapping whose share is below
\* 15 percent, the dominant source among them when its own share is below
\* 15 percent; an entry of 15 percent or more gets none, and neither does
\* the "principale" summary entry.
C16_GrowthBulletsBelow15 ==
    LegacyInsighted =>
        LET fonti == ProcessedSources
            Low(name, pct) == pct < 1500
        IN  GrowthBullets = SourcesWhere(fonti, Low)

C16_Witness ==
    /\ LegacyInsighted
    /\ raw.d = [traffic_sources |-> ManySources]
    /\ Len(GrowthBullets) = 23
    /\ GrowthBullets[1][1] = MainName(ProcessedSources)

MobileBullets ==
    OfRules(insights.opportunita, {"mobile_crescita", "mobile_ottimizzazione"})

\* C17: there is at most one mobile bullet; it is the growth bullet exactly
\* when there is a mobile entry with a share below 30 percent, the
\* optimization bullet exactly when the share is above 50 percent, and
\* there is none for a share from 30 to 50 percent inclusive or when the
\* devices have no mobile entry.
C17_MobileBullet ==
    LegacyInsighted =>
        LET d == ProcessedDevices
            has == HasKey(d, "mobile")
            pct == IF has THEN Get(d, "mobile").percentuale ELSE 0
        IN  /\ Len(MobileBullets) <= 1
            /\ (has /\ pct < 3000) <=>
                   (MobileBullets # <<>>
                    /\ MobileBullets[1].rule = "mobile_crescita")
            /\ (has /\ pct > 5000) <=>
                   (MobileBullets # <<>>
                    /\ MobileBullets[1].rule = "mobile_ottimizzazione")
            /\ (~has \/ (pct >= 3000 /\ pct <= 5000)) <=> MobileBullets = <<>>

C17_Witness ==
    /\ LegacyInsighted
    /\ HasKey(ProcessedDevices, "mobile")
    /\ Get(ProcessedDevices, "mobile").percentuale = 3000
    /\ MobileBullets = <<>>

Rules(bullets) == [i \in 1..Len(bullets) |-> bullets[i].rule]

\* C18: among the practical advice, the internal-linking bullet is present
\* exactly when the pages per session (0 when the stage was handed none) are
\* below 2, the SEO bullet exactly when the organic entry has a share below
\* 20 percent, the social bullet exactly when the social entry has a share
\* below 10 percent, and these bullets come in that order.
C18_PracticalAdvice ==
    LegacyInsighted =>
        LET pps == RecGet(stage_returned.metriche_principali,
                          "pagine_per_sessione", 0)
            share(name) == Get(ProcessedSources, name).percentuale
        IN  Rules(OfRules(insights.consigli_pratici,
                          {"collegamenti_interni", "seo", "social"}))
            = (IF pps < 200 THEN <<"collegamenti_interni">> ELSE <<>>)
              \o (IF HasKey(ProcessedSources, "organic") /\ share("organic") < 2000
                  THEN <<"seo">> ELSE <<>>)
              \o (IF HasKey(ProcessedSources, "social") /\ share("social") < 1000
                  THEN <<"social">> ELSE <<>>)

C18_Witness ==
    /\ LegacyInsighted
    /\ raw.d = AnomalousBundle
    /\ Rules(insights.consigli_pratici)
           = <<"collegamenti_interni", "seo", "social", "contenuto_pagina">>

C20_KeyPoints ==
    LegacyInsighted =>
        LET kp == insights.punti_chiave
            sources == WithoutPrincipale(ProcessedSources)
            Ranks(items, entries) ==
                /\ Len(items) = Len(entries)
                /\ \A k \in 1..Len(entries) :
                       \E i \in 1..Len(items) :
                           /\ items[i][1].capitalized = entries[k][1]
                           /\ items[i][2] = entries[k][2].percentuale
                /\ \A i \in 1..(Len(items) - 1) : items[i][2] >= items[i + 1][2]
        IN  /\ Rules(kp)
                   = (IF sources # <<>> THEN <<"fonti">> ELSE <<>>)
                     \o (IF ProcessedDevices # <<>> THEN <<"dispositivi">> ELSE <<>>)
                     \o (IF ProcessedPages # <<>> THEN <<"pagine">> ELSE <<>>)
                     \o (IF stage_returned.anomalie # <<>> THEN <<"anomalie">>
                         ELSE <<>>)
            /\ \A s \in 1..Len(kp) :
                   /\ kp[s].rule = "fonti" => Ranks(kp[s].items, sources)
                   /\ kp[s].rule = "dispositivi" =>
                          Ranks(kp[s].items, ProcessedDevices)
                   /\ kp[s].rule = "pagine" =>
                          /\ Len(kp[s].items) <= 3
                          /\ Len(kp[s].items) <= Len(ProcessedPages)
                          /\ Len(kp[s].items) = 3 \/
                                 Len(kp[s].items) = Len(ProcessedPages)
                          /\ \A i \in 1..Len(kp[s].items) :
                                 kp[s].items[i][1] = ProcessedPages[i].nome
                   /\ kp[s].rule = "anomalie" =>
                          Len(kp[s].items) = Len(stage_returned.anomalie)

C20_Witness ==
    /\ LegacyInsighted
    /\ raw.d = AnomalousBundle
    /\ Rules(insights.punti_chiave)
           = <<"fonti", "dispositivi", "pagine", "anomalie">>
    /\ Len(ProcessedPages) = 5
    /\ Len(insights.punti_chiave[3].items) = 3
    /\ insights.punti_chiave[2].items[1][2] = 7100

(***************************************************************************)
(* Properties of the stages called on their own                            *)
(***************************************************************************)
\* the rules of the sentences and bullets of an insight bundle
RulesOf(bundle) ==
    {bundle.sommario[i].clause : i \in 1..Len(bundle.sommario)}
    \cup {bundle.punti_chiave[i].rule : i \in 1..Len(bundle.punti_chiave)}
    \cup {bundle.opportunita[i].rule : i \in 1..Len(bundle.opportunita)}
    \cup {bundle.consigli_pratici[i].rule : i \in 1..Len(bundle.consigli_pratici)}

\* the rules that read a sub-structure of the processed metrics; the clause
\* of the totals, which the summary always starts with, is not among them
RulesReading(key) ==
    CASE key = "metriche_principali" -> {"collegamenti_interni"}
      [] key = "tendenze" -> {"tendenza"}
      [] key = "fonti_traffico" ->
             {"fonte_principale", "fonti", "crescita_canale", "seo", "social"}
      [] key = "dispositivi" ->
             {"dispositivi", "mobile_crescita", "mobile_ottimizzazione"}
      [] key = "pagine_principali" -> {"pagine", "contenuto_pagina"}
      [] key = "anomalie" -> {"anomalie"}

\* C21: when a sub-structure of the processed metrics is missing the insight
\* stage returns an insight bundle with no sentence and no bullet of the
\* rules that read it; only a request that is not a mapping is answered
\* as invalid.
C21_MissingSkipsRules ==
    (coord = "insight" /\ pc = "done") =>
        /\ stage_returned.raised = "none"
        /\ stage_returned.data.data = InvalidFormat <=> ~IsDict(raw)
        /\ IsDict(raw) =>
               \A key \in {"metriche_principali", "tendenze", "fonti_traffico",
                           "dispositivi", "pagine_principali", "anomalie"} :
                   key \notin DOMAIN raw.d =>
                       RulesOf(stage_returned.data.data) \cap RulesReading(key) = {}

Visualized == coord = "visualization" /\ pc = "done" /\ IsDict(raw)
VisualizedData == RecGet(raw.d, "processed_data", EmptyDict)
ChartsOf(outcome) == outcome.data.data.dashboard.charts
SectionsOf(outcome) == outcome.data.data.report.sections

C27_ChartIdsResolve ==
    (Visualized /\ stage_returned.raised = "none") =>
        LET charts == ChartsOf(stage_returned)
            sections == SectionsOf(stage_returned)
        IN  /\ \A i, j \in 1..Len(charts) :
                   charts[i].id = charts[j].id => i = j
            /\ \A k \in 1..Len(sections) :
                   "chartId" \in DOMAIN sections[k] =>
                       \E i \in 1..Len(charts) : charts[i].id = sections[k].chartId

C27_Witness ==
    /\ Visualized
    /\ Len(ChartsOf(stage_returned)) = 5
    /\ \E k \in 1..Len(SectionsOf(stage_returned)) :
           /\ "chartId" \in DOMAIN SectionsOf(stage_returned)[k]
           /\ SectionsOf(stage_returned)[k].chartId = "devices"
    /\ \E k \in 1..Len(SectionsOf(stage_returned)) :
           /\ "chartId" \in DOMAIN SectionsOf(stage_returned)[k]
           /\ SectionsOf(stage_returned)[k].chartId = "traffic_sources"

(***************************************************************************)
(* Properties of a run on the week of the end-to-end scenario              *)
(***************************************************************************)
WeekRun ==
    /\ coord = "legacy" /\ pc = "done" /\ IsDict(raw)
    /\ HasDaily(raw.d)
    /\ DailyOf(raw) = <<100, 110, 120, 130, 140, 70, 80>>

HasChart(type, id) ==
    \E i \in 1..Len(visualizations.dashboard.charts) :
        /\ visualizations.dashboard.charts[i].type = type
        /\ visualizations.dashboard.charts[i].id = id

\* the trend of the halves 100, 110, 120 (mean 110) and 130, 140, 70, 80
\* (mean 105): a decline of 4.55 percent
WeekTrend ==
    /\ "visitatori" \in DOMAIN results.processed_data.tendenze
    /\ results.processed_data.tendenze.visitatori
           = [direzione |-> "decrescita", percentuale |-> 455]

CalledAgain ==
    coord \in {"processing_again", "insight_again", "recommendation_again"}

TrafficReturned == coord = "traffic" /\ pc = "done"

\* C25: for every pair of date texts, well-formed, malformed or with the
\* start after the end, get_website_traffic returns a raw bundle and
\* raises nothing; with a malformed date the bundle covers the default
\* range, the eight days that end today.
C25_TrafficNeverRaises ==
    TrafficReturned =>
        /\ stage_returned.raised = "none"
        /\ "metrics" \in DOMAIN stage_returned.data
        /\ ({raw.start_date, raw.end_date} \cap MalformedDates # {}
               => Len(stage_returned.data.metrics.visitors.daily) = 8)

(***************************************************************************)
(* Properties of the per-source entries                                    *)
(***************************************************************************)
\* C26: for every source name k of the raw traffic sources, whatever the
\* name, the processed traffic sources keep an entry for k with k's raw
\* count and the percentage round(100 * count / total, 2); the entry of the
\* main source never replaces it.  (Stated for positive counts.)
C26_PerSourceEntryKept ==
    (/\ LegacyProcessed
     /\ "traffic_sources" \in DOMAIN raw.d
     /\ \A i \in 1..Len(raw.d.traffic_sources) :
            raw.d.traffic_sources[i][2] > 0) =>
        LET sources == raw.d.traffic_sources
            total == Sum(Values(sources))
        IN  \A i \in 1..Len(sources) :
                /\ HasKey(ProcessedSources, sources[i][1])
                /\ Get(ProcessedSources, sources[i][1]) =
                       [valore |-> sources[i][2],
                        percentuale |-> Round2Pct(sources[i][2], total)]

(***************************************************************************)
(* Properties of short daily series                                        *)
(***************************************************************************)
\* C28: for every daily series of 3, 4 or 5 integer values the processing
\* stage flags no anomaly.
C28_ShortSeriesNoAnomaly ==
    (/\ coord = "anomalies" /\ pc = "done"
     /\ Len(raw.d.metrics.visitors.daily) \in {3, 4, 5}) =>
        stage_returned.anomalie = <<>>

AppRan == coord = "agent_app" /\ pc = "done"

\* C30: AgentApp.run invokes every registered agent exactly once, in the
\* order of registration, and returns exactly one entry per registered
\* name: response and data for an agent that returned, error for one that
\* raised; the agents registered after one that raises run all the same.
C30_EveryAgentRunsOnce ==
    AppRan =>
        /\ calls = Keys(state)
        /\ Keys(results) = Keys(state)
        /\ \A i \in 1..Len(state) :
               results[i][2] =
                   IF state[i][2].raises
                   THEN [error |-> "errore"]
                   ELSE [response |-> state[i][2].response, data |-> raw]

C30_Witness ==
    /\ AppRan
    /\ Len(state) = 3
    /\ state[1][2].raises
    /\ ~state[2][2].raises
    /\ state[3][2] = state[2][2]
    /\ calls = Keys(state)
    /\ "error" \in DOMAIN results[1][2]
    /\ "response" \in DOMAIN results[3][2]

=============================================================================
